---- MODULE Spec2Model ----
(***************************************************************************)
(* Model of leap_utils: the branch materializers of leap_core.py           *)
(* (create_branches_from_export_file / _ensure_path_exists_create_if_not / *)
(* ensure_branch_exists) and the reconciliation engine of                  *)
(* energy_use_reconciliation.py (reconcile_energy_use).                    *)
(*                                                                         *)
(* Spec     : the materializers driving the external LEAP hierarchy.       *)
(* SpecRec  : reconcile_energy_use over a small tabular dataset, and the   *)
(*            audit of its result by build_adjustment_change_tables.       *)
(* SpecAudit: the adjustment reporting helpers over pairs of tables.       *)
(***************************************************************************)
EXTENDS Integers, Sequences, FiniteSets, TLC

VARIABLES
    tree,      \* external LEAP hierarchy: the set of branch paths that exist
    tree0,     \* the hierarchy as it was when the running operation started
    calls,     \* external calls issued by the running operation, in order
    args,      \* the arguments of the operation the host script invokes
    pc,        \* position of the running operation
    order,     \* branch_paths after sorting (create_branches_from_export_file)
    idx,       \* index of the batch path being processed
    seg,       \* index i of the segment loop of the path walk
    parent,    \* parent_branch: a handle (the node's path) or NoHandle
    diag,      \* last diagnostic printed / error raised by the walk
    created,   \* result list 'created'
    skipped,   \* result list 'skipped'
    failed,    \* result list 'failed'
    outcome,   \* how the operation ended: returned / raised
    prev,      \* summary of the previous finished run of the operation
    faults,    \* external failures injected so far
    rargs,     \* the arguments of reconcile_energy_use
    frames,    \* the DataFrame objects: reference -> table
    working,   \* the reference bound to working_df
    ycols,     \* adjustment_year_columns
    kidx,      \* position in branch_mapping_rules.items()
    results,   \* the summary rows collected so far
    adjusts,   \* the adjust(...) invocations, in order
    rpc,       \* position of reconcile_energy_use
    aargs,     \* the arguments of the adjustment reporting helper called
    changes,   \* what the adjustment reporting helper returned
    apc        \* position of the adjustment reporting helper

matVars == <<tree, tree0, calls, args, pc, order, idx, seg, parent, diag,
             created, skipped, failed, outcome, prev, faults>>

recVars == <<rargs, frames, working, ycols, kidx, results, adjusts, rpc>>

audVars == <<aargs, changes, apc>>

vars == <<matVars, recVars, audVars>>

-----------------------------------------------------------------------------
(* Bounds of the model *)

MaxBatch == 3      \* longest list of branch paths read from the spreadsheet
MaxFaults == 1     \* external failures (Exists / Add*) per behaviour

-----------------------------------------------------------------------------
(* LEAP BranchType enumeration values *)

BRANCH_DEMAND_CATEGORY == 1
BRANCH_DEMAND_TECHNOLOGY == 4
BRANCH_DEMAND_FUEL == 36
BRANCH_KEY_ASSUMPTION_BRANCH == 9
BRANCH_KEY_ASSUMPTION_CATEGORY == 10
\* a BranchType with no Add* entry point in the materializers
TRANSFORMATION_MODULE == 2

\* Python None for a branch type (dict.get miss)
NoType == 0
\* Python None for a branch handle; a handle is the path of its node
NoHandle == <<>>
\* branch_root=None
NoRoot == <<>>

-----------------------------------------------------------------------------
(* Strings.  A branch path is kept as its list of segments; the Python     *)
(* string is the character sequence obtained by joining the segments with  *)
(* a backslash.                                                            *)

Sep == "\\"

Chars(s) ==
    CASE s = "A"  -> <<"A">>
      [] s = "B"  -> <<"B">>
      [] s = "Bc" -> <<"B", "c">>
      [] s = "C"  -> <<"C">>
      [] s = "D"  -> <<"D">>
      [] OTHER    -> <<s>>

RECURSIVE PathStr(_)
\* "\\".join(parts)
PathStr(p) ==
    IF Len(p) = 0 THEN <<>>
    ELSE IF Len(p) = 1 THEN Chars(p[1])
    ELSE PathStr(SubSeq(p, 1, Len(p) - 1)) \o <<Sep>> \o Chars(p[Len(p)])

\* b.startswith(bp)
StartsWith(b, bp) ==
    /\ Len(bp) <= Len(b)
    /\ SubSeq(b, 1, Len(bp)) = bp

\* len(s.split("\\"))
SplitCount(s) == 1 + Cardinality({i \in 1..Len(s) : s[i] = Sep})

Prefix(p, i) == SubSeq(p, 1, i)

Range(s) == {s[i] : i \in 1..Len(s)}

-----------------------------------------------------------------------------
(* Path resolver: identify_branch_type_from_mapping *)

MapGet(m, k) == IF k \in DOMAIN m THEN m[k] ELSE NoType

\* mutant: paths with one more segment are tested before those with two more
IdentifyOneMoreFirst(bp, others, root, mapping, defaults) ==
    LET no_root == IF root # NoRoot THEN SubSeq(bp, Len(root) + 1, Len(bp)) ELSE <<>>
        direct == MapGet(mapping, bp)
        bt == IF direct = NoType /\ root # NoRoot THEN MapGet(mapping, no_root) ELSE direct
        matching == {b \in Range(others) : StartsWith(PathStr(b), PathStr(bp))}
        one_more == {b \in matching : SplitCount(PathStr(b)) - SplitCount(PathStr(bp)) = 1}
        two_more == {b \in matching : SplitCount(PathStr(b)) - SplitCount(PathStr(bp)) = 2}
    IN  IF bt # NoType THEN bt
        ELSE IF one_more # {} THEN defaults[2]
        ELSE IF two_more # {} THEN defaults[1]
        ELSE defaults[3]

\* mutant: the root-stripped tuple is looked up before the full tuple
IdentifyStrippedFirst(bp, others, root, mapping, defaults) ==
    LET no_root == IF root # NoRoot THEN SubSeq(bp, Len(root) + 1, Len(bp)) ELSE <<>>
        stripped == IF root # NoRoot THEN MapGet(mapping, no_root) ELSE NoType
        bt == IF stripped = NoType THEN MapGet(mapping, bp) ELSE stripped
        matching == {b \in Range(others) : StartsWith(PathStr(b), PathStr(bp))}
        one_more == {b \in matching : SplitCount(PathStr(b)) - SplitCount(PathStr(bp)) = 1}
        two_more == {b \in matching : SplitCount(PathStr(b)) - SplitCount(PathStr(bp)) = 2}
    IN  IF bt # NoType THEN bt
        ELSE IF two_more # {} THEN defaults[1]
        ELSE IF one_more # {} THEN defaults[2]
        ELSE defaults[3]

identify_branch_type_from_mapping(bp, others, root, mapping, defaults) ==
    LET no_root == IF root # NoRoot THEN SubSeq(bp, Len(root) + 1, Len(bp)) ELSE <<>>
        direct == MapGet(mapping, bp)
        bt == IF direct = NoType /\ root # NoRoot THEN MapGet(mapping, no_root) ELSE direct
        matching == {b \in Range(others) : StartsWith(PathStr(b), PathStr(bp))}
        one_more == {b \in matching : SplitCount(PathStr(b)) - SplitCount(PathStr(bp)) = 1}
        two_more == {b \in matching : SplitCount(PathStr(b)) - SplitCount(PathStr(bp)) = 2}
    IN  IF bt # NoType THEN bt
        ELSE IF two_more # {} THEN defaults[1]
        ELSE IF one_more # {} THEN defaults[2]
        ELSE defaults[3]

-----------------------------------------------------------------------------
(* External collaborator: the LEAP application *)

\* a call of the external system with its response: Exists answers "yes" / "no",
\* an Add* call "ok" (node created, handle returned) or "none" (no handle);
\* "raise" is a failing call
ExistsEv(p, res) ==
    [op |-> "Exists", path |-> p, parent |-> NoHandle, kind |-> NoType, res |-> res]
AddEv(name, p, par, k, res) ==
    [op |-> name, path |-> p, parent |-> par, kind |-> k, res |-> res]

IsAdd(e) == e.op \in {"AddCategory", "AddTechnology", "AddKeyAssumption",
                      "AddKeyAssumptionCategory"}

\* Branches.Exists either answers or fails (COM error)
ExistsOutcomes == {"ok"} \cup (IF faults < MaxFaults THEN {"raise"} ELSE {})
\* an Add* call creates the node and returns its handle, returns no handle,
\* or fails (COM error)
AddOutcomes == {"ok"} \cup (IF faults < MaxFaults THEN {"none", "raise"} ELSE {})

\* mutant: only a root branch is ever reported as existing
SafeBranchCallRootOnly(branch_path, eo) ==
    IF eo = "raise" THEN "raise"
    ELSE IF branch_path \in tree /\ Len(branch_path) = 1 THEN "yes"
    ELSE "no"

\* safe_branch_call(L, branch_path, ...): Branches.Exists(branch_path) fails
\* ("raise"), or answers; on "yes" L.Branch(branch_path) is returned
safe_branch_call(branch_path, eo) ==
    IF eo = "raise" THEN "raise"
    ELSE IF branch_path \in tree THEN "yes"
    ELSE "no"

\* result of one iteration of a segment loop
Iter(ev, added, par, nxt, err, used) ==
    [events |-> ev, added |-> added, parent |-> par, next |-> nxt, err |-> err,
     used |-> used]

\* L.Add*(par.ID, part, ...) issued after the existence check of `current`
\* answered "missing"; ao is the external outcome.  The node is created below
\* the branch whose ID is passed.
AddCall(name, current, par, part, kind, ao) ==
    LET node == Append(par, part)
        ev == <<ExistsEv(current, safe_branch_call(current, "ok")),
                AddEv(name, node, par, kind, ao)>>
    IN  CASE ao = "ok"   -> Iter(ev, {node}, node, "continue", "", 0)
          [] ao = "none" -> Iter(ev, {}, NoHandle, "continue", "create_none", 1)
          [] OTHER       -> Iter(ev, {}, NoHandle, "raise", "add_failed", 1)

-----------------------------------------------------------------------------
(* _ensure_path_exists_create_if_not: one iteration of `for i, part in     *)
(* enumerate(parts)` for segment i of full_path, entered with parent_branch *)
(* = par; eo / ao are the external outcomes of Exists and of the Add* call. *)

\* mutant: the `if parent_branch is None: return None` test is missing
EnsurePathIterNoParentCheck(full_path, i, par, others, root, mapping, defaults, eo, ao) ==
    LET current == Prefix(full_path, i)
        br == safe_branch_call(current, eo)
    IN  IF br = "raise"
        THEN Iter(<<ExistsEv(current, "raise")>>, {}, par, "raise", "exists_failed", 1)
        ELSE IF br = "yes"
        THEN Iter(<<ExistsEv(current, "yes")>>, {}, current, "continue", "", 0)
        ELSE AddCall("AddKeyAssumptionCategory", current, par, full_path[i],
                     BRANCH_KEY_ASSUMPTION_CATEGORY, ao)

EnsurePathIter(full_path, i, par, others, root, mapping, defaults, eo, ao) ==
    LET current == Prefix(full_path, i)
        branch_type == identify_branch_type_from_mapping(current, others, root,
                                                         mapping, defaults)
        br == safe_branch_call(current, eo)
    IN  IF br = "raise"
        THEN Iter(<<ExistsEv(current, "raise")>>, {}, par, "raise", "exists_failed", 1)
        ELSE IF br = "yes"
        THEN Iter(<<ExistsEv(current, "yes")>>, {}, current, "continue", "", 0)
        ELSE IF par = NoHandle
        THEN Iter(<<ExistsEv(current, "no")>>, {}, NoHandle, "return_none", "orphan", 0)
        ELSE IF branch_type = BRANCH_DEMAND_CATEGORY
        THEN AddCall("AddCategory", current, par, full_path[i], branch_type, ao)
        ELSE IF branch_type = BRANCH_DEMAND_TECHNOLOGY
        THEN AddCall("AddTechnology", current, par, full_path[i], branch_type, ao)
        ELSE IF branch_type = BRANCH_DEMAND_FUEL
        THEN Iter(<<ExistsEv(current, "no")>>, {}, par, "raise", "manual_fuel", 0)
        ELSE IF branch_type = BRANCH_KEY_ASSUMPTION_BRANCH
        THEN AddCall("AddKeyAssumption", current, par, full_path[i], branch_type, ao)
        ELSE IF branch_type = BRANCH_KEY_ASSUMPTION_CATEGORY
        THEN AddCall("AddKeyAssumptionCategory", current, par, full_path[i], branch_type, ao)
        ELSE Iter(<<ExistsEv(current, "no")>>, {}, NoHandle, "return_none", "unsupported", 0)

-----------------------------------------------------------------------------
(* Shortname-based kind inference: _choose_branch_type_for_segment *)

\* shortnames of the SHORTNAME_TO_LEAP_BRANCHES table, as character sequences
FuelRoad == <<"F","u","e","l"," ","(","r","o","a","d",")">>
MediumRoad == <<"M","e","d","i","u","m"," ","(","r","o","a","d",")">>
FuelRoadUpper == <<"F","u","e","l"," ","(","R","O","A","D",")">>
FuelNonRoad == <<"F","u","e","l"," ","(","n","o","n","-","r","o","a","d",")">>
OthersLevel2 == <<"O","t","h","e","r","s"," ","(","l","e","v","e","l"," ","2",")">>
MediumNonRoad == <<"M","e","d","i","u","m"," ","(","n","o","n","-","r","o","a","d",")">>

LowerChar(c) ==
    CASE c = "F" -> "f" [] c = "M" -> "m" [] c = "O" -> "o"
      [] c = "R" -> "r" [] c = "A" -> "a" [] c = "D" -> "d"
      [] OTHER -> c

\* str.lower()
Lower(s) == [i \in 1..Len(s) |-> LowerChar(s[i])]

\* sub in s
Contains(s, sub) ==
    \E i \in 1..(Len(s) - Len(sub) + 1) : SubSeq(s, i, i + Len(sub) - 1) = sub

RoadTag == <<"(","r","o","a","d",")">>

\* mutant: the last key whose value list holds branch_tuple is taken
LastShortname(branch_tuple, table) ==
    LET hits == {k \in 1..Len(table) :
                    ~branch_tuple.isDict /\ branch_tuple.tup \in table[k].values}
    IN  IF hits = {} THEN 0 ELSE CHOOSE k \in hits : \A j \in hits : k >= j

\* the first key (in table order) whose value list holds branch_tuple, or 0
\* (a dict is never an element of a list of tuples)
FirstShortname(branch_tuple, table) ==
    LET hits == {k \in 1..Len(table) :
                    ~branch_tuple.isDict /\ branch_tuple.tup \in table[k].values}
    IN  IF hits = {} THEN 0 ELSE CHOOSE k \in hits : \A j \in hits : k <= j

\* mutant: a stock-based shortname other than 'Fuel (road)' gives a category
ChooseBranchTypeStockAsCategory(branch_tuple, table) ==
    LET k == FirstShortname(branch_tuple, table)
        shortname == table[k].key
    IN  IF k = 0 THEN [err |-> "lookup", kind |-> NoType]
        ELSE IF shortname = FuelRoad THEN [err |-> "", kind |-> BRANCH_DEMAND_FUEL]
        ELSE IF shortname \in {OthersLevel2, FuelNonRoad}
        THEN [err |-> "", kind |-> BRANCH_DEMAND_TECHNOLOGY]
        ELSE [err |-> "", kind |-> BRANCH_DEMAND_CATEGORY]

\* result: [err, kind]; err "" when a kind is returned
choose_branch_type_for_segment(branch_tuple, table) ==
    LET k == FirstShortname(branch_tuple, table)
        shortname == table[k].key
    IN  IF k = 0 THEN [err |-> "lookup", kind |-> NoType]
        ELSE IF Contains(Lower(shortname), RoadTag)
        THEN IF shortname = FuelRoad
             THEN [err |-> "", kind |-> BRANCH_DEMAND_FUEL]
             ELSE [err |-> "manual_stock", kind |-> NoType]
        ELSE IF shortname \in {OthersLevel2, FuelNonRoad}
        THEN [err |-> "", kind |-> BRANCH_DEMAND_TECHNOLOGY]
        ELSE [err |-> "", kind |-> BRANCH_DEMAND_CATEGORY]

\* mutant: a demand fuel branch is created through AddTechnology
CreateChildBranchFuelAsTechnology(current, par, part, branch_type, ao) ==
    IF par = NoHandle
    THEN Iter(<<ExistsEv(current, "no")>>, {}, par, "raise", "orphan", 0)
    ELSE IF branch_type = BRANCH_DEMAND_CATEGORY
    THEN AddCall("AddCategory", current, par, part, branch_type, ao)
    ELSE IF branch_type \in {BRANCH_DEMAND_TECHNOLOGY, BRANCH_DEMAND_FUEL}
    THEN AddCall("AddTechnology", current, par, part, branch_type, ao)
    ELSE Iter(<<ExistsEv(current, "no")>>, {}, par, "raise", "unsupported", 0)

\* _create_child_branch(L, parent_branch, name, branch_type), called after the
\* existence check of `current` answered "missing"
create_child_branch(current, par, part, branch_type, ao) ==
    IF par = NoHandle
    THEN Iter(<<ExistsEv(current, "no")>>, {}, par, "raise", "orphan", 0)
    ELSE IF branch_type = BRANCH_DEMAND_CATEGORY
    THEN AddCall("AddCategory", current, par, part, branch_type, ao)
    ELSE IF branch_type = BRANCH_DEMAND_TECHNOLOGY
    THEN AddCall("AddTechnology", current, par, part, branch_type, ao)
    ELSE IF branch_type = BRANCH_DEMAND_FUEL
    THEN Iter(<<ExistsEv(current, "no")>>, {}, par, "raise", "manual_fuel", 0)
    ELSE Iter(<<ExistsEv(current, "no")>>, {}, par, "raise", "unsupported", 0)

\* ensure_branch_exists: the branch type of a missing segment (a dict with
\* a 'branch_type' key overrides the inference)
segment_branch_type(branch_tuple, table) ==
    IF branch_tuple.isDict /\ branch_tuple.hasType
    THEN [err |-> "", kind |-> branch_tuple.branch_type]
    ELSE choose_branch_type_for_segment(branch_tuple, table)

\* ensure_branch_exists: one iteration of `for i, part in enumerate(parts)`
EnsureBranchIter(full_path, i, par, branch_tuple, auto, table, eo, ao) ==
    LET current == Prefix(full_path, i)
        chosen == segment_branch_type(branch_tuple, table)
        br == safe_branch_call(current, eo)
    IN  IF br = "raise"
        THEN Iter(<<ExistsEv(current, "raise")>>, {}, par, "raise", "exists_failed", 1)
        ELSE IF br = "yes"
        THEN Iter(<<ExistsEv(current, "yes")>>, {}, current, "continue", "", 0)
        ELSE IF ~auto
        THEN Iter(<<ExistsEv(current, "no")>>, {}, par, "raise", "missing", 0)
        ELSE IF chosen.err # ""
        THEN Iter(<<ExistsEv(current, "no")>>, {}, par, "raise", chosen.err, 0)
        ELSE create_child_branch(current, par, full_path[i], chosen.kind, ao)

-----------------------------------------------------------------------------
(* create_branches_from_export_file *)

\* sorted(branch_paths, key=lambda x: len(x.split("\\"))): a stable sort
Depth(b) == SplitCount(PathStr(b))

\* x placed behind every element whose key is not greater (stability)
InsertByDepth(sorted, x) ==
    LET n == Cardinality({i \in 1..Len(sorted) : Depth(sorted[i]) <= Depth(x)})
    IN  SubSeq(sorted, 1, n) \o <<x>> \o SubSeq(sorted, n + 1, Len(sorted))

RECURSIVE SortDeepestFirst(_)
\* mutant: the list is sorted by descending segment count
SortDeepestFirst(paths) ==
    IF paths = <<>> THEN <<>>
    ELSE LET rest == SortDeepestFirst(SubSeq(paths, 1, Len(paths) - 1))
             x == paths[Len(paths)]
             n == Cardinality({i \in 1..Len(rest) : Depth(rest[i]) >= Depth(x)})
         IN SubSeq(rest, 1, n) \o <<x>> \o SubSeq(rest, n + 1, Len(rest))

\* mutant: the list is processed in spreadsheet order
SortInputOrder(paths) == paths

RECURSIVE SortByDepth(_)
SortByDepth(paths) ==
    IF paths = <<>> THEN <<>>
    ELSE InsertByDepth(SortByDepth(SubSeq(paths, 1, Len(paths) - 1)), paths[Len(paths)])

\* mutant: RAISE_ERROR_ON_FAILED_BRANCH_CREATION is ignored
RecordNodeLenient(node, strict) ==
    IF node # NoHandle THEN "created" ELSE "failed"

\* mutant: a failed path is dropped without being recorded
RecordNodeDropFailed(node, strict) ==
    IF node # NoHandle THEN "created"
    ELSE IF strict THEN "raise"
    ELSE "dropped"

\* the branch `if node: ... else: ...` after _ensure_path_exists_create_if_not
RecordNode(node, strict) ==
    IF node # NoHandle THEN "created"
    ELSE IF strict THEN "raise"
    ELSE "failed"

Running == [status |-> "running", err |-> ""]
NotCalled == [status |-> "none", err |-> ""]
Raised(e) == [status |-> "raised", err |-> e]
Returned == [status |-> "returned", err |-> ""]

NoRun == [status |-> "none", err |-> "", calls |-> <<>>, created |-> <<>>,
          skipped |-> <<>>, failed |-> <<>>, node |-> NoHandle]
LastRun == [status |-> outcome.status, err |-> outcome.err, calls |-> calls,
            created |-> created, skipped |-> skipped, failed |-> failed,
            node |-> parent]

\* the host script runs the operation, and may run it once more afterwards
StartBatch ==
    /\ UNCHANGED <<recVars, audVars>>
    /\ pc = "idle"
    /\ args.op = "batch"
    /\ prev.status = "none"
    /\ prev' = IF outcome.status = "none" THEN NoRun ELSE LastRun
    /\ order' = SortByDepth(args.paths)
    /\ idx' = 1
    /\ created' = <<>>
    /\ skipped' = <<>>
    /\ failed' = <<>>
    /\ calls' = <<>>
    /\ outcome' = Running
    /\ seg' = 0
    /\ parent' = NoHandle
    /\ diag' = ""
    /\ pc' = "batch_loop"
    /\ tree0' = tree
    /\ UNCHANGED <<tree, args, faults>>

\* mutant: an existing branch is not skipped
SkipNever(br) == FALSE

\* `if safe_branch_call(L, bp, ...) is not None: skipped.append(bp); continue`
SkipExisting(br) == br = "yes"

\* `for bp in branch_paths:` with the safe_branch_call(L, bp, ...) test
BatchLoop ==
    /\ UNCHANGED <<recVars, audVars>>
    /\ pc = "batch_loop"
    /\ idx <= Len(order)
    /\ \E eo \in ExistsOutcomes :
         LET bp == order[idx]
             br == safe_branch_call(bp, eo)
         IN
           IF br = "raise"
           THEN /\ calls' = Append(calls, ExistsEv(bp, "raise"))
                /\ faults' = faults + 1
                /\ outcome' = Raised("exists_failed")
                /\ pc' = "idle"
                /\ UNCHANGED <<skipped, idx, seg, parent>>
           ELSE IF SkipExisting(br)
           THEN /\ calls' = Append(calls, ExistsEv(bp, br))
                /\ skipped' = Append(skipped, bp)
                /\ idx' = idx + 1
                /\ UNCHANGED <<faults, outcome, pc, seg, parent>>
           ELSE /\ calls' = Append(calls, ExistsEv(bp, br))
                /\ seg' = 1
                /\ parent' = NoHandle
                /\ pc' = "walk"
                /\ UNCHANGED <<faults, outcome, skipped, idx>>
    /\ UNCHANGED <<tree, tree0, args, order, diag, created, failed, prev>>

\* the loop is exhausted: return {"created", "skipped", "failed"}
BatchReturn ==
    /\ UNCHANGED <<recVars, audVars>>
    /\ pc = "batch_loop"
    /\ idx > Len(order)
    /\ outcome' = Returned
    /\ pc' = "idle"
    /\ UNCHANGED <<tree, tree0, calls, args, order, idx, seg, parent, diag,
                   created, skipped, failed, prev, faults>>

\* _ensure_path_exists_create_if_not called on its own for one path
StartPath ==
    /\ UNCHANGED <<recVars, audVars>>
    /\ pc = "idle"
    /\ args.op = "path"
    /\ prev.status = "none"
    /\ prev' = IF outcome.status = "none" THEN NoRun ELSE LastRun
    /\ order' = <<args.full_path>>
    /\ idx' = 1
    /\ calls' = <<>>
    /\ outcome' = Running
    /\ seg' = 1
    /\ parent' = NoHandle
    /\ diag' = ""
    /\ pc' = "walk"
    /\ tree0' = tree
    /\ UNCHANGED <<tree, args, created, skipped, failed, faults>>

\* other_branch_paths: branch_paths_copy in the batch
OtherBranchPaths == IF args.op = "path" THEN args.paths ELSE order

\* one iteration of the segment loop of _ensure_path_exists_create_if_not
WalkStep ==
    /\ UNCHANGED <<recVars, audVars>>
    /\ pc = "walk"
    /\ seg <= Len(order[idx])
    /\ \E eo \in ExistsOutcomes, ao \in AddOutcomes :
         LET r == EnsurePathIter(order[idx], seg, parent, OtherBranchPaths, args.root,
                                 args.mapping, args.defaults, eo, ao)
         IN  /\ calls' = calls \o r.events
             /\ tree' = tree \cup r.added
             /\ faults' = faults + r.used
             /\ diag' = r.err
             /\ parent' = r.parent
             /\ IF r.next = "continue"
                THEN /\ seg' = seg + 1
                     /\ UNCHANGED <<pc, outcome>>
                ELSE IF r.next = "return_none"
                THEN /\ pc' = IF args.op = "path" THEN "idle" ELSE "record"
                     /\ outcome' = IF args.op = "path" THEN Returned ELSE outcome
                     /\ UNCHANGED seg
                ELSE /\ outcome' = Raised(r.err)
                     /\ pc' = "idle"
                     /\ UNCHANGED seg
    /\ UNCHANGED <<tree0, args, order, idx, created, skipped, failed, prev>>

\* the segment loop is exhausted: return parent_branch
WalkReturn ==
    /\ UNCHANGED <<recVars, audVars>>
    /\ pc = "walk"
    /\ seg > Len(order[idx])
    /\ pc' = IF args.op = "path" THEN "idle" ELSE "record"
    /\ outcome' = IF args.op = "path" THEN Returned ELSE outcome
    /\ UNCHANGED <<tree, tree0, calls, args, order, idx, seg, parent, diag,
                   created, skipped, failed, prev, faults>>

\* node = _ensure_path_exists_create_if_not(...); if node: ... else: ...
BatchRecord ==
    /\ UNCHANGED <<recVars, audVars>>
    /\ pc = "record"
    /\ LET what == RecordNode(parent, args.strict) IN
         /\ created' = IF what = "created" THEN Append(created, order[idx]) ELSE created
         /\ failed' = IF what = "failed" THEN Append(failed, order[idx]) ELSE failed
         /\ IF what = "raise"
            THEN /\ outcome' = Raised("failed_to_create")
                 /\ pc' = "idle"
                 /\ UNCHANGED idx
            ELSE /\ idx' = idx + 1
                 /\ pc' = "batch_loop"
                 /\ UNCHANGED outcome
    /\ UNCHANGED <<tree, tree0, calls, args, order, seg, parent, diag, skipped, prev, faults>>

-----------------------------------------------------------------------------
(* ensure_branch_exists *)

StartEnsure ==
    /\ UNCHANGED <<recVars, audVars>>
    /\ pc = "idle"
    /\ args.op = "ensure"
    /\ prev.status = "none"
    /\ prev' = IF outcome.status = "none" THEN NoRun ELSE LastRun
    /\ calls' = <<>>
    /\ outcome' = Running
    /\ seg' = 1
    /\ parent' = NoHandle
    /\ diag' = ""
    /\ pc' = "ensure_walk"
    /\ tree0' = tree
    /\ UNCHANGED <<tree, args, order, idx, created, skipped, failed, faults>>

EnsureStep ==
    /\ UNCHANGED <<recVars, audVars>>
    /\ pc = "ensure_walk"
    /\ seg <= Len(args.full_path)
    /\ \E eo \in ExistsOutcomes, ao \in AddOutcomes :
         LET r == EnsureBranchIter(args.full_path, seg, parent, args.branch_tuple,
                                   args.auto, args.table, eo, ao)
         IN  /\ calls' = calls \o r.events
             /\ tree' = tree \cup r.added
             /\ faults' = faults + r.used
             /\ diag' = r.err
             /\ parent' = r.parent
             /\ IF r.next = "continue"
                THEN /\ seg' = seg + 1
                     /\ UNCHANGED <<pc, outcome>>
                ELSE /\ outcome' = Raised(r.err)
                     /\ pc' = "idle"
                     /\ UNCHANGED seg
    /\ UNCHANGED <<tree0, args, order, idx, created, skipped, failed, prev>>

\* return parent_branch
EnsureReturn ==
    /\ UNCHANGED <<recVars, audVars>>
    /\ pc = "ensure_walk"
    /\ seg > Len(args.full_path)
    /\ outcome' = Returned
    /\ pc' = "idle"
    /\ UNCHANGED <<tree, tree0, calls, args, order, idx, seg, parent, diag,
                   created, skipped, failed, prev, faults>>

-----------------------------------------------------------------------------
(* Inputs *)

PathUniverse == {<<"A">>, <<"A", "B">>, <<"A", "B", "C">>, <<"A", "Bc", "D">>}

Injective(s) == \A i, j \in 1..Len(s) : s[i] = s[j] => i = j

\* df[branch_path_col].dropna().unique(): lists of distinct paths
BatchInputs ==
    {s \in UNION {[1..n -> PathUniverse] : n \in 1..MaxBatch} : Injective(s)}

\* sheets that list a deep branch without its intermediate categories
DeepBatchInputs ==
    { << <<"A", "B", "C", "D", "E">> >>,
      << <<"A", "B", "C", "D", "E">>, <<"A", "B", "C">> >> }

\* hierarchies present in LEAP before the call (a node exists only below an
\* existing parent)
Trees ==
    { {},
      {<<"A">>},
      {<<"A">>, <<"A", "B">>},
      {<<"A">>, <<"A", "Bc">>},
      {<<"A">>, <<"A", "B">>, <<"A", "B", "C">>} }

KeyAssumptionDefaults ==
    <<BRANCH_KEY_ASSUMPTION_CATEGORY, BRANCH_KEY_ASSUMPTION_CATEGORY,
      BRANCH_KEY_ASSUMPTION_BRANCH>>
DemandDefaults ==
    <<BRANCH_DEMAND_CATEGORY, BRANCH_DEMAND_TECHNOLOGY, BRANCH_DEMAND_FUEL>>

EmptyMapping == [k \in {} |-> NoType]

\* (branch_root, branch_type_mapping, default_branch_type)
TypeConfigs ==
    { [root |-> NoRoot, mapping |-> EmptyMapping, defaults |-> KeyAssumptionDefaults],
      [root |-> NoRoot, mapping |-> EmptyMapping, defaults |-> DemandDefaults],
      [root |-> <<"A">>,
       mapping |-> (<<"B">> :> BRANCH_DEMAND_TECHNOLOGY)
                   @@ (<<"A", "B", "C">> :> TRANSFORMATION_MODULE)
                   @@ (<<"B", "C">> :> BRANCH_DEMAND_CATEGORY),
       defaults |-> KeyAssumptionDefaults] }

Tuple(t) == [isDict |-> FALSE, hasType |-> FALSE, branch_type |-> NoType, tup |-> t]
Dict(k) == [isDict |-> TRUE, hasType |-> k # NoType, branch_type |-> k, tup |-> <<>>]

BranchTuples ==
    { Tuple(<<"B">>), Tuple(<<"B", "C">>), Tuple(<<"Bc", "D">>), Tuple(<<"X">>),
      Dict(BRANCH_DEMAND_CATEGORY), Dict(BRANCH_DEMAND_FUEL),
      Dict(BRANCH_KEY_ASSUMPTION_BRANCH), Dict(NoType) }

\* SHORTNAME_TO_LEAP_BRANCHES tables (key order is the dict's iteration order)
ShortnameTables ==
    { << [key |-> MediumNonRoad, values |-> {<<"B">>}],
         [key |-> FuelNonRoad, values |-> {<<"B">>, <<"B", "C">>}],
         [key |-> FuelRoad, values |-> {<<"Bc", "D">>}] >>,
      << [key |-> FuelRoadUpper, values |-> {<<"B", "C">>}],
         [key |-> MediumRoad, values |-> {<<"B">>}],
         [key |-> OthersLevel2, values |-> {<<"B">>, <<"Bc", "D">>}] >> }

NoBranchTuple == Tuple(<<>>)

BatchArgs ==
    { [op |-> "batch", paths |-> ps, strict |-> st, root |-> tc.root,
       mapping |-> tc.mapping, defaults |-> tc.defaults,
       full_path |-> <<>>, branch_tuple |-> NoBranchTuple, auto |-> FALSE,
       table |-> <<>>] :
      ps \in BatchInputs \cup DeepBatchInputs, st \in BOOLEAN, tc \in TypeConfigs }

EnsureArgs ==
    { [op |-> "ensure", paths |-> <<>>, strict |-> FALSE, root |-> NoRoot,
       mapping |-> EmptyMapping, defaults |-> KeyAssumptionDefaults,
       full_path |-> fp, branch_tuple |-> bt, auto |-> au, table |-> tb] :
      fp \in PathUniverse, bt \in BranchTuples, au \in BOOLEAN,
      tb \in ShortnameTables }

PathArgs ==
    UNION { { [op |-> "path", paths |-> ps, strict |-> FALSE, root |-> tc.root,
               mapping |-> tc.mapping, defaults |-> tc.defaults,
               full_path |-> fp, branch_tuple |-> NoBranchTuple, auto |-> FALSE,
               table |-> <<>>] :
              tc \in TypeConfigs,
              ps \in {<<fp>>,
                      <<<<"A", "B">>, <<"A", "B", "C">>, <<"A", "Bc", "D">>>>,
                      <<<<"A", "B", "C">>, <<"A", "B", "C", "E">>>>} } :
            fp \in PathUniverse }

\* reconcile_energy_use is not part of the materializer runs
NoRecArgs == [export_df |-> "None"]
NoFrames == <<>>
NoAuditArgs == [op |-> "None"]

Init ==
    /\ tree \in Trees
    /\ tree0 = tree
    /\ args \in BatchArgs \cup EnsureArgs \cup PathArgs
    /\ calls = <<>>
    /\ pc = "idle"
    /\ order = <<>>
    /\ idx = 0
    /\ seg = 0
    /\ parent = NoHandle
    /\ diag = ""
    /\ created = <<>>
    /\ skipped = <<>>
    /\ failed = <<>>
    /\ outcome = NotCalled
    /\ prev = NoRun
    /\ faults = 0
    /\ rargs = NoRecArgs
    /\ frames = NoFrames
    /\ working = "None"
    /\ ycols = <<>>
    /\ kidx = 0
    /\ results = <<>>
    /\ adjusts = <<>>
    /\ rpc = "off"
    /\ aargs = NoAuditArgs
    /\ changes = <<>>
    /\ apc = "off"

Next ==
    \/ StartBatch
    \/ BatchLoop
    \/ BatchReturn
    \/ StartPath
    \/ WalkStep
    \/ WalkReturn
    \/ BatchRecord
    \/ StartEnsure
    \/ EnsureStep
    \/ EnsureReturn

Spec == Init /\ [][Next]_vars

-----------------------------------------------------------------------------
(* Vocabulary of the properties of the materializers *)

AddsOf(log) == {j \in 1..Len(log) : IsAdd(log[j])}

IsProperPrefix(p, q) == Len(p) < Len(q) /\ SubSeq(q, 1, Len(p)) = p

AllPrefixesIn(p, T) == \A i \in 1..Len(p) : Prefix(p, i) \in T

Touched(x) == \E i \in 1..Len(calls) : calls[i].path = x

FirstTouch(x) == CHOOSE i \in 1..Len(calls) :
                    /\ calls[i].path = x
                    /\ \A j \in 1..(i - 1) : calls[j].path # x

NoExternalFailure(log) == \A j \in 1..Len(log) : log[j].res \notin {"raise", "none"}

\* a segment loop is about to run an iteration
InGenericWalk == pc = "walk" /\ seg <= Len(order[idx])
InEnsureWalk == pc = "ensure_walk" /\ seg <= Len(args.full_path)
Current == IF pc = "walk" THEN Prefix(order[idx], seg) ELSE Prefix(args.full_path, seg)

\* the calls issued by the step
NewCalls == SubSeq(calls', Len(calls) + 1, Len(calls'))

\* the step runs an iteration whose existence check answers "missing"
MissingReached ==
    /\ InGenericWalk \/ InEnsureWalk
    /\ Len(calls') > Len(calls)
    /\ calls'[Len(calls) + 1] = ExistsEv(Current, "no")

\* the step ends the operation in failure with one of the errors errs and
\* without an Add* call: the generic walk returns None after the warning,
\* ensure_branch_exists raises
FailsWith(errs) ==
    /\ Len(NewCalls) = 1
    /\ tree' = tree
    /\ \/ /\ pc = "walk"
          /\ diag' \in errs
          /\ parent' = NoHandle
          /\ pc' = IF args.op = "path" THEN "idle" ELSE "record"
       \/ /\ pc = "ensure_walk"
          /\ outcome'.status = "raised"
          /\ outcome'.err \in errs
          /\ pc' = "idle"

-----------------------------------------------------------------------------
\* C2: a creation call is issued only for a prefix whose existence check just
\* answered "missing", never for a node that exists; walking a path whose every
\* segment exists issues no creation call and returns the handle of the
\* existing node of the full path (in the batch such a path is skipped).
C2_CreateOnlyMissing ==
    /\ \A j \in AddsOf(calls) :
          /\ j > 1
          /\ calls[j - 1] = ExistsEv(calls[j].path, "no")
          /\ calls[j].path \notin tree0
          /\ \A i \in 1..(j - 1) :
                ~(IsAdd(calls[i]) /\ calls[i].res = "ok" /\ calls[i].path = calls[j].path)
    /\ ( /\ args.op \in {"ensure", "path"}
         /\ AllPrefixesIn(args.full_path, tree0)
         /\ outcome.status = "returned" )
       => ( /\ AddsOf(calls) = {}
            /\ parent = args.full_path
            /\ args.full_path \in tree )
    /\ (args.op = "batch" /\ outcome.status # "none")
       => \A k \in 1..Len(order) :
             (k < idx /\ order[k] \in tree0) => order[k] \in Range(skipped)

\* a three-segment path whose segments all exist has been walked to its end
C2_Witness ==
    /\ args.op \in {"ensure", "path"}
    /\ Len(args.full_path) = 3
    /\ AllPrefixesIn(args.full_path, tree0)
    /\ outcome.status = "returned"
    /\ Len(calls) = 3

-----------------------------------------------------------------------------
\* the second run of the batch has ended
SecondRunDone ==
    /\ args.op = "batch"
    /\ prev.status # "none"
    /\ pc = "idle"
    /\ outcome.status \in {"returned", "raised"}

\* every creation of the first run succeeded and made the node exist, and no
\* external call of either run failed
CreationsSucceeded ==
    /\ NoExternalFailure(prev.calls)
    /\ NoExternalFailure(calls)
    /\ \A j \in AddsOf(prev.calls) : prev.calls[j].path \in tree0

SecondRunIdle ==
    /\ outcome = Returned
    /\ AddsOf(calls) = {}
    /\ created = <<>>
    /\ failed = <<>>
    /\ skipped = order
    /\ Range(skipped) = Range(args.paths)

\* C3 as stated: after a first run whose creations all succeeded, the second
\* run over the same list issues no creation call and reports created = []
\* with every path in skipped.
C3_Original == (SecondRunDone /\ CreationsSucceeded) => SecondRunIdle

\* C3 amended: the same, for a first run that returned normally with an empty
\* 'failed' list.
C3_IdempotentAfterCleanRun ==
    ( /\ SecondRunDone
      /\ CreationsSucceeded
      /\ prev.status = "returned"
      /\ prev.failed = <<>> )
    => SecondRunIdle

\* the first run created branches, the second run has ended
C3_Witness ==
    /\ SecondRunDone
    /\ CreationsSucceeded
    /\ prev.status = "returned"
    /\ prev.failed = <<>>
    /\ Len(prev.created) >= 2
    /\ outcome = Returned

-----------------------------------------------------------------------------
NoOrphanAdd == \A j \in AddsOf(calls) : calls[j].parent # NoHandle

\* C7 as stated: no Add* call is issued without a parent handle, and a
\* missing segment reached with no parent handle held ends the operation
\* with the orphan-creation error, without an Add* call.
C7_Original ==
    /\ []NoOrphanAdd
    /\ [][(MissingReached /\ parent = NoHandle) => FailsWith({"orphan"})]_vars

\* C7 amended: no Add* call is issued without a parent handle, and a missing
\* segment reached with no parent handle held ends the operation in failure
\* without an Add* call: with the orphan-creation error, or, in
\* ensure_branch_exists, with the error raised before the parent test
\* (missing branch when auto-creation is off, shortname lookup, stock-based
\* branch).
C7_NoOrphanCreation ==
    /\ []NoOrphanAdd
    /\ [][(MissingReached /\ parent = NoHandle) =>
            /\ FailsWith({"orphan", "missing", "lookup", "manual_stock"})
            /\ (pc = "walk" => diag' = "orphan")
            /\ (pc = "ensure_walk" /\ args.auto
                   /\ segment_branch_type(args.branch_tuple, args.table).err = "")
                => outcome'.err = "orphan"]_vars

\* the previous creation returned no handle and the next segment, missing,
\* was refused as an orphan
C7_Witness ==
    /\ diag = "orphan"
    /\ Len(calls) >= 3
    /\ IsAdd(calls[Len(calls) - 1])
    /\ calls[Len(calls) - 1].res = "none"
    /\ calls[Len(calls)].res = "no"

-----------------------------------------------------------------------------
\* the step resolves the kind of a missing segment to BRANCH_DEMAND_FUEL
FuelResolved ==
    /\ MissingReached
    /\ \/ /\ pc = "walk"
          /\ parent # NoHandle
          /\ identify_branch_type_from_mapping(Current, OtherBranchPaths, args.root,
                 args.mapping, args.defaults) = BRANCH_DEMAND_FUEL
       \/ /\ pc = "ensure_walk"
          /\ args.auto
          /\ segment_branch_type(args.branch_tuple, args.table)
                = [err |-> "", kind |-> BRANCH_DEMAND_FUEL]

FuelRefused(errs) ==
    /\ Len(NewCalls) = 1
    /\ tree' = tree
    /\ outcome'.status = "raised"
    /\ outcome'.err \in errs
    /\ pc' = "idle"
    /\ created' = created
    /\ skipped' = skipped
    /\ failed' = failed

\* C8 as stated: a missing segment whose kind resolves to FuelLike is never
\* created; the operation always fails with the manual-creation error and the
\* path is reported neither as created nor as skipped.
C8_Original == [][FuelResolved => FuelRefused({"manual_fuel"})]_vars

\* C8 amended: ... the operation always fails, with the manual-creation error
\* or, in ensure_branch_exists when no parent handle is held, with the
\* orphan-creation error that _create_child_branch tests first.
C8_FuelNeverCreated ==
    [][FuelResolved =>
        /\ FuelRefused({"manual_fuel", "orphan"})
        /\ (outcome'.err = "orphan") <=> (pc = "ensure_walk" /\ parent = NoHandle)]_vars

\* the batch was aborted by the manual-creation error of a fuel segment
C8_Witness ==
    /\ args.op = "batch"
    /\ outcome = Raised("manual_fuel")
    /\ Len(calls) >= 2

-----------------------------------------------------------------------------
\* C9: the batch is processed in ascending segment-count order whatever the
\* input order: for batch paths p, q with p a proper ancestor of q, p is
\* existence-checked before q is, and every creation call for p precedes
\* every creation call for q.
C9_AncestorsFirst ==
    (args.op = "batch" /\ outcome.status # "none") =>
      /\ Len(order) = Len(args.paths)
      /\ Range(order) = Range(args.paths)
      /\ \A i, j \in 1..Len(order) : i < j => Depth(order[i]) <= Depth(order[j])
      /\ \A p, q \in Range(args.paths) :
            IsProperPrefix(p, q) =>
              /\ Touched(q) => (Touched(p) /\ FirstTouch(p) < FirstTouch(q))
              /\ \A i, j \in AddsOf(calls) :
                    (calls[i].path = p /\ calls[j].path = q) => i < j

\* a descendant listed before its ancestor; both were created, the ancestor
\* first
C9_Witness ==
    /\ args.op = "batch"
    /\ Len(args.paths) >= 2
    /\ IsProperPrefix(args.paths[2], args.paths[1])
    /\ \E i, j \in AddsOf(calls) :
          /\ calls[i].path = args.paths[2]
          /\ calls[j].path = args.paths[1]
          /\ calls[i].res = "ok"
          /\ calls[j].res = "ok"

-----------------------------------------------------------------------------
\* C10: in strict mode the first path that fails to materialize aborts the
\* batch by raising: nothing is accumulated in 'failed', and no later path of
\* the batch is existence-checked or created.
C10_StrictAborts ==
    /\ []((args.op = "batch" /\ args.strict) => failed = <<>>)
    /\ []((args.op = "batch" /\ args.strict /\ outcome.status = "raised") =>
            /\ pc = "idle"
            /\ \A k \in (idx + 1)..Len(order) : ~Touched(order[k]))
    /\ [][(args.op = "batch" /\ args.strict /\ pc = "record" /\ parent = NoHandle) =>
            /\ outcome' = Raised("failed_to_create")
            /\ pc' = "idle"
            /\ UNCHANGED <<tree, calls, created, skipped, failed, idx>>]_vars

\* a strict batch was aborted while paths were left to process
C10_Witness ==
    /\ args.op = "batch"
    /\ args.strict
    /\ outcome = Raised("failed_to_create")
    /\ idx < Len(order)

-----------------------------------------------------------------------------
LenientBatch == args.op = "batch" /\ ~args.strict

\* C11: in lenient mode no materialization failure aborts the batch: the batch
\* never raises, and a path whose walk ends without a node is appended to
\* 'failed' while the batch goes on with the next path.
C11_Original ==
    /\ [](LenientBatch => outcome.status # "raised")
    /\ [][(LenientBatch /\ pc = "record" /\ parent = NoHandle) =>
            /\ failed' = Append(failed, order[idx])
            /\ idx' = idx + 1
            /\ pc' = "batch_loop"]_vars

\* a lenient batch was aborted by the FuelLike error, with no external call
\* failing, while paths were left to process and nothing was recorded
C11_Witness ==
    /\ LenientBatch
    /\ outcome = Raised("manual_fuel")
    /\ NoExternalFailure(calls)
    /\ faults = 0
    /\ idx < Len(order)
    /\ order[idx] \notin Range(failed)

-----------------------------------------------------------------------------
\* C12: when create_branches_from_export_file returns, every path of the
\* batch is in exactly one of created / skipped / failed, exactly once.
C12_ResultPartitionsBatch ==
    (args.op = "batch" /\ outcome = Returned) =>
        LET all == created \o skipped \o failed
        IN  /\ Len(all) = Len(args.paths)
            /\ \A p \in Range(args.paths) :
                  Cardinality({i \in 1..Len(all) : all[i] = p}) = 1
            /\ Range(all) = Range(args.paths)

\* a batch returned with a created, a skipped and a failed path
C12_Witness ==
    /\ args.op = "batch"
    /\ outcome = Returned
    /\ created # <<>>
    /\ skipped # <<>>
    /\ failed # <<>>

-----------------------------------------------------------------------------
(* Vocabulary of the path resolver *)

\* the override of a path: the entry of the full tuple, else (with a root
\* configured) the entry of the tuple without its first Len(root) segments
Override(bp) ==
    IF bp \in DOMAIN args.mapping THEN args.mapping[bp]
    ELSE IF args.root # NoRoot /\ SubSeq(bp, Len(args.root) + 1, Len(bp)) \in DOMAIN args.mapping
         THEN args.mapping[SubSeq(bp, Len(args.root) + 1, Len(bp))]
         ELSE NoType

\* known paths whose path string starts with the candidate's and that have
\* exactly n more segments
LongerBy(bp, n) ==
    {b \in Range(OtherBranchPaths) :
        /\ Len(PathStr(b)) >= Len(PathStr(bp))
        /\ SubSeq(PathStr(b), 1, Len(PathStr(bp))) = PathStr(bp)
        /\ Len(b) = Len(bp) + n}

\* known paths that extend the candidate segment by segment by exactly n
\* segments
ExtendsBy(bp, n) ==
    {b \in Range(OtherBranchPaths) : IsProperPrefix(bp, b) /\ Len(b) = Len(bp) + n}

\* default[0] if S2 is non-empty, else default[1] if S1 is, else default[2]
Positional(S1, S2) ==
    IF S2 # {} THEN args.defaults[1]
    ELSE IF S1 # {} THEN args.defaults[2]
    ELSE args.defaults[3]

\* the step resolves the kind of the missing segment Current
ResolverCalled == pc = "walk" /\ MissingReached /\ parent # NoHandle

\* the step acts on kind k: the matching Add* call, the FuelLike error, or the
\* unsupported-kind warning
StepUsesKind(k) ==
    \/ /\ Len(NewCalls) = 2
       /\ NewCalls[2].kind = k
       /\ NewCalls[2].op =
            CASE k = BRANCH_DEMAND_CATEGORY -> "AddCategory"
              [] k = BRANCH_DEMAND_TECHNOLOGY -> "AddTechnology"
              [] k = BRANCH_KEY_ASSUMPTION_BRANCH -> "AddKeyAssumption"
              [] k = BRANCH_KEY_ASSUMPTION_CATEGORY -> "AddKeyAssumptionCategory"
              [] OTHER -> "None"
    \/ /\ Len(NewCalls) = 1
       /\ k = BRANCH_DEMAND_FUEL
       /\ diag' = "manual_fuel"
    \/ /\ Len(NewCalls) = 1
       /\ k \notin {BRANCH_DEMAND_CATEGORY, BRANCH_DEMAND_TECHNOLOGY, BRANCH_DEMAND_FUEL,
                    BRANCH_KEY_ASSUMPTION_BRANCH, BRANCH_KEY_ASSUMPTION_CATEGORY}
       /\ diag' = "unsupported"

-----------------------------------------------------------------------------
-----------------------------------------------------------------------------
\* C14: S1 and S2 hold only known paths that extend the candidate segment by
\* segment by exactly one / two segments, so the kind of a path without
\* override is the positional kind of those sets; a known path that only
\* shares a string prefix with the candidate has no influence.
C14_Original ==
    [][(ResolverCalled /\ Override(Current) = NoType) =>
         StepUsesKind(Positional(ExtendsBy(Current, 1), ExtendsBy(Current, 2)))]_vars

\* a node that no known path extends was created with default[1] instead of
\* the leaf kind default[2]
C14_Witness ==
    \E j \in AddsOf(calls) :
       /\ Override(calls[j].path) = NoType
       /\ ExtendsBy(calls[j].path, 1) = {}
       /\ ExtendsBy(calls[j].path, 2) = {}
       /\ calls[j].kind = args.defaults[2]
       /\ args.defaults[2] # args.defaults[3]
       /\ calls[j].res = "ok"

-----------------------------------------------------------------------------
-----------------------------------------------------------------------------
(* Vocabulary of the properties of ensure_branch_exists *)

\* the branch tuple the call is about: the tuple passed, or, when a dict is
\* passed in its place, the segments of full_path below the root branch
BranchTupleOfCall ==
    IF args.branch_tuple.isDict THEN Tail(args.full_path) ELSE args.branch_tuple.tup

\* the positions of the shortnames of the table whose list holds the tuple
ShortnamesOf(tup, table) == {k \in 1..Len(table) : tup \in table[k].values}

\* the first shortname listing the tuple is stock-based ('(road)' in it, in any
\* case) and is not the fuel leaf 'Fuel (road)'
StockBasedNotFuelLeaf(tup, table) ==
    /\ ShortnamesOf(tup, table) # {}
    /\ LET k == CHOOSE k \in ShortnamesOf(tup, table) : \A j \in ShortnamesOf(tup, table) : k <= j
       IN /\ Contains(Lower(table[k].key), RoadTag)
          /\ table[k].key # FuelRoad

\* the caller overrides the kind: a dict with a 'branch_type' entry
KindOverride == args.branch_tuple.isDict /\ args.branch_tuple.hasType

\* the step of ensure_branch_exists meets a missing segment of a stock-based
\* branch that is not the fuel leaf
StockSegmentMissing ==
    /\ args.op = "ensure"
    /\ InEnsureWalk
    /\ MissingReached
    /\ StockBasedNotFuelLeaf(BranchTupleOfCall, args.table)

\* C22 as stated: a missing segment of a stock-based branch that is not the
\* fuel leaf is never auto-created, whatever kind override the caller
\* supplies: the call fails with an error and issues no creation call.
C22_Original ==
    [][StockSegmentMissing => FailsWith({"manual_stock", "missing", "lookup", "orphan", "manual_fuel", "unsupported"})]_vars

\* C22, amended: without a kind override the missing segment of a stock-based
\* branch that is not the fuel leaf is never auto-created: the call raises
\* (the '(road)' error when AUTO_SET_MISSING_BRANCHES is set) and issues no
\* creation call.  A dict with 'branch_type' bypasses the inference: the
\* segment is then handled with the overriding kind, and with a category
\* kind under a held parent the creation call is issued.
C22_NoOverrideNoCreation ==
    /\ [][(StockSegmentMissing /\ ~KindOverride) =>
            /\ FailsWith({"manual_stock", "missing", "lookup"})
            /\ (args.auto /\ ~args.branch_tuple.isDict) => outcome'.err = "manual_stock"]_vars
    /\ [][(StockSegmentMissing /\ KindOverride /\ args.auto /\ parent # NoHandle
             /\ args.branch_tuple.branch_type = BRANCH_DEMAND_CATEGORY) =>
            /\ Len(NewCalls) = 2
            /\ NewCalls[2].op = "AddCategory"
            /\ NewCalls[2].path = Current]_vars
    /\ []((args.op = "ensure" /\ outcome = Raised("manual_stock")) =>
            /\ AddsOf(calls) = {}
            /\ tree = tree0)

\* the call for 'A\B', listed under 'Medium (road)', found 'A' and failed at
\* the missing 'A\B' with the '(road)' error, without any creation call
C22_Witness ==
    /\ args.op = "ensure"
    /\ args.full_path = <<"A", "B">>
    /\ args.branch_tuple = Tuple(<<"B">>)
    /\ args.auto
    /\ outcome = Raised("manual_stock")
    /\ calls = <<ExistsEv(<<"A">>, "yes"), ExistsEv(<<"A", "B">>, "no")>>
    /\ tree = tree0

-----------------------------------------------------------------------------
\* the step of ensure_branch_exists infers the kind of a missing segment from
\* the shortname table
InferenceStep ==
    /\ args.op = "ensure"
    /\ InEnsureWalk
    /\ MissingReached
    /\ args.auto
    /\ ~KindOverride

\* the shortnames listing the branch tuple passed (a dict is in no list)
Listing ==
    IF args.branch_tuple.isDict THEN {}
    ELSE ShortnamesOf(args.branch_tuple.tup, args.table)

\* the step issues the creation call `name` with kind k for the missing segment
Creates(name, k) ==
    /\ Len(NewCalls) = 2
    /\ NewCalls[2].op = name
    /\ NewCalls[2].kind = k
    /\ NewCalls[2].path = Current
    /\ NewCalls[2].parent = parent

\* C23: the shortname-based inference fails with the lookup error, and no
\* creation call is issued, whenever the branch tuple is listed under no
\* shortname of the table; otherwise the segment is handled by the first
\* shortname, in table order, whose list holds the tuple.
C23_LookupErrorOrFirstShortname ==
    /\ [][InferenceStep =>
            IF Listing = {} THEN FailsWith({"lookup"})
            ELSE LET shortname == args.table[CHOOSE k \in Listing : \A j \in Listing : k <= j].key
                 IN IF Contains(Lower(shortname), RoadTag) /\ shortname # FuelRoad
                    THEN FailsWith({"manual_stock"})
                    ELSE IF parent = NoHandle THEN FailsWith({"orphan"})
                    ELSE IF shortname = FuelRoad THEN FailsWith({"manual_fuel"})
                    ELSE IF shortname \in {OthersLevel2, FuelNonRoad}
                    THEN Creates("AddTechnology", BRANCH_DEMAND_TECHNOLOGY)
                    ELSE Creates("AddCategory", BRANCH_DEMAND_CATEGORY)]_vars
    /\ []((args.op = "ensure" /\ outcome = Raised("lookup")) =>
            /\ AddsOf(calls) = {}
            /\ tree = tree0
            /\ Listing = {})

\* the call for 'A\B' with a tuple that no shortname lists found 'A' and
\* failed at the missing 'A\B' with the lookup error
C23_Witness ==
    /\ args.op = "ensure"
    /\ args.full_path = <<"A", "B">>
    /\ args.branch_tuple = Tuple(<<"X">>)
    /\ outcome = Raised("lookup")
    /\ calls = <<ExistsEv(<<"A">>, "yes"), ExistsEv(<<"A", "B">>, "no")>>
    /\ AddsOf(calls) = {}

-----------------------------------------------------------------------------
\* the batch has returned its result
BatchReturned == args.op = "batch" /\ pc = "idle" /\ outcome = Returned

\* C26: when the batch returns normally, 'skipped' holds exactly the batch
\* paths that existed in the external hierarchy before the batch started and
\* 'created' plus 'failed' exactly those that did not; no path is skipped
\* because an earlier path of the batch created it as an intermediate
\* segment, and every path in 'created' exists in the hierarchy afterwards.
C26_SkippedIffExistedBefore ==
    BatchReturned =>
       /\ Range(skipped) = Range(args.paths) \cap tree0
       /\ Range(created) \cup Range(failed) = Range(args.paths) \ tree0
       /\ \A j \in AddsOf(calls) : calls[j].path \notin Range(skipped)
       /\ Range(created) \subseteq tree

\* a batch listing 'A\B\C' before 'A\B' and the existing 'A': 'A' was
\* skipped, 'A\B' was created by its own walk and 'A\B\C' after it
C26_Witness ==
    /\ BatchReturned
    /\ args.paths = << <<"A", "B", "C">>, <<"A", "B">>, <<"A">> >>
    /\ tree0 = {<<"A">>}
    /\ skipped = << <<"A">> >>
    /\ created = << <<"A", "B">>, <<"A", "B", "C">> >>
    /\ failed = <<>>
    /\ tree = {<<"A">>, <<"A", "B">>, <<"A", "B", "C">>}

-----------------------------------------------------------------------------
\* the step of the batch creates the missing segment Current with the leaf
\* kind default[2], obtained by positional inference
CreatesLeafByPosition ==
    /\ args.op = "batch"
    /\ ResolverCalled
    /\ Override(Current) = NoType
    /\ args.defaults[3] \notin {args.defaults[1], args.defaults[2]}
    /\ Len(NewCalls) = 2
    /\ IsAdd(NewCalls[2])
    /\ NewCalls[2].path = Current
    /\ NewCalls[2].kind = args.defaults[3]
    /\ NewCalls[2].res = "ok"

\* C27: whenever the batch creates a node with the leaf kind default[2]
\* obtained by positional inference, no path of the batch is a proper
\* descendant of that node: every intermediate segment created on the way to
\* a deeper batch path gets a non-leaf kind.
C27_Original ==
    [][CreatesLeafByPosition => \A b \in Range(order) : ~IsProperPrefix(Current, b)]_vars

\* 'A\B' was created as a key assumption leaf on the way to the batch path
\* 'A\B\C\D\E', three segments below it
C27_Witness ==
    /\ args.op = "batch"
    /\ args.paths = << <<"A", "B", "C", "D", "E">> >>
    /\ args.defaults = KeyAssumptionDefaults
    /\ \E j \in AddsOf(calls) :
          /\ calls[j].path = <<"A", "B">>
          /\ calls[j].op = "AddKeyAssumption"
          /\ calls[j].kind = BRANCH_KEY_ASSUMPTION_BRANCH
          /\ calls[j].res = "ok"
    /\ <<"A", "B">> \in tree

-----------------------------------------------------------------------------
(* energy_use_reconciliation.py: numbers.                                  *)
(* A float is the exact rational <<n, d>> in lowest terms with d > 0;      *)
(* NaN is <<0, 0>>.  Rounding is not modelled.                             *)

NaN == <<0, 0>>
Zero == <<0, 1>>
One == <<1, 1>>
Number(n) == <<n, 1>>
IsNaN(x) == x[2] = 0
AbsInt(a) == IF a < 0 THEN -a ELSE a

RECURSIVE GCD(_, _)
GCD(a, b) == IF b = 0 THEN a ELSE GCD(b, a % b)

Rat(n, d) ==
    IF d = 0 THEN NaN
    ELSE LET g == GCD(AbsInt(n), AbsInt(d))
             s == IF d < 0 THEN -1 ELSE 1
         IN <<(s * n) \div g, (s * d) \div g>>

\* x * y
Times(x, y) ==
    IF IsNaN(x) \/ IsNaN(y) THEN NaN
    ELSE LET g1 == GCD(AbsInt(x[1]), y[2])
             g2 == GCD(AbsInt(y[1]), x[2])
         IN Rat((x[1] \div g1) * (y[1] \div g2), (x[2] \div g2) * (y[2] \div g1))

\* x + y
Plus(x, y) ==
    IF IsNaN(x) \/ IsNaN(y) THEN NaN
    ELSE LET g == GCD(x[2], y[2])
         IN Rat(x[1] * (y[2] \div g) + y[1] * (x[2] \div g), (x[2] \div g) * y[2])

\* x - y
Minus(x, y) == Plus(x, <<-y[1], y[2]>>)

\* x / y, for y != 0
Quot(x, y) ==
    IF IsNaN(x) \/ IsNaN(y) \/ y[1] = 0 THEN NaN
    ELSE Times(x, Rat(y[2], y[1]))

\* abs(x)
AbsRat(x) == <<AbsInt(x[1]), x[2]>>

\* x > y (False when either is NaN)
Greater(x, y) == ~IsNaN(x) /\ ~IsNaN(y) /\ Minus(x, y)[1] > 0

-----------------------------------------------------------------------------
(* energy_use_reconciliation.py: tables.                                   *)
(* A DataFrame is its set of year-like columns and its rows in position    *)
(* order; a row carries its index label, its "Branch Path", its "Variable" *)
(* and one value per column.  A Series is a function from index labels to  *)
(* values.                                                                 *)

Row(label, path, var, vals) == [label |-> label, path |-> path, var |-> var, vals |-> vals]
DataFrame(columns, rows) == [columns |-> columns, rows |-> rows]

\* what a Python function returns or raises
Return(v) == [raised |-> "", value |-> v]
Raise(e) == [raised |-> e, value |-> <<>>]

\* "\\".join(segment for segment in [root, *branch_tuple] if segment)
build_branch_path(branch_tuple, root) ==
    PathStr(SelectSeq(<<root>> \o branch_tuple, LAMBDA segment : segment # ""))

DEFAULT_STRATEGIES ==
    [Intensity |-> <<"Activity Level", "Final Energy Intensity">>,
     Stock |-> <<"Stock", "Mileage", "Fuel Economy">>]

\* rule.get("input_variables_override") or strategies[rule["calculation_strategy"]]
InputVars(rule, strategies) ==
    IF rule.input_variables_override # <<>> THEN Return(rule.input_variables_override)
    ELSE IF rule.calculation_strategy \in DOMAIN strategies
         THEN Return(strategies[rule.calculation_strategy])
         ELSE Raise("KeyError")

\* build_branch_path(rule["branch_tuple"], root=rule.get("root", "Demand"))
RulePath(rule) == build_branch_path(rule.branch_tuple, rule.root)

\* (export_df["Branch Path"] == branch_path) & (export_df["Variable"] == variable)
Mask(df, branch_path, variable) ==
    {i \in 1..Len(df.rows) : df.rows[i].path = branch_path /\ df.rows[i].var = variable}

\* export_df.loc[mask, year]: the selected cells under their index labels
Loc(df, mask, year) ==
    [l \in {df.rows[i].label : i \in mask} |->
        df.rows[CHOOSE i \in mask : df.rows[i].label = l].vals[year]]

\* a * b on two Series: aligned on the union of the index labels, NaN where
\* a label is missing on one side
SeriesMul(a, b) ==
    [l \in DOMAIN a \cup DOMAIN b |->
        IF l \in DOMAIN a /\ l \in DOMAIN b THEN Times(a[l], b[l]) ELSE NaN]

RECURSIVE SumOver(_, _)
SumOver(s, labels) ==
    IF labels = {} THEN Zero
    ELSE LET l == CHOOSE x \in labels : TRUE
         IN Plus(IF IsNaN(s[l]) THEN Zero ELSE s[l], SumOver(s, labels \ {l}))

\* combined.sum(): NaN cells are skipped
SeriesSum(s) == SumOver(s, DOMAIN s)

RECURSIVE Combined(_, _)
\* combined = series_list[0]; for additional in series_list[1:]: combined = combined * additional
Combined(series_list, n) ==
    IF n = 1 THEN series_list[1]
    ELSE SeriesMul(Combined(series_list, n - 1), series_list[n])

default_input_series_provider(export_df, base_year, branch_path, input_variables) ==
    IF base_year \notin export_df.columns THEN Raise("KeyError")
    ELSE IF \E j \in 1..Len(input_variables) :
                Mask(export_df, branch_path, input_variables[j]) = {}
         THEN Raise("ValueError")
         ELSE Return([j \in 1..Len(input_variables) |->
                        Loc(export_df, Mask(export_df, branch_path, input_variables[j]),
                            base_year)])

\* a caller-supplied energy_fn: the energy of a rule is the sum of the
\* base-year values of its first input variable
custom_energy_fn(export_df, base_year, rule, strategies) ==
    LET iv == InputVars(rule, strategies) IN
    IF iv.raised # "" THEN iv
    ELSE LET series_list == default_input_series_provider(
                                export_df, base_year, RulePath(rule), <<iv.value[1]>>)
         IN IF series_list.raised # "" THEN series_list
            ELSE Return(SeriesSum(series_list.value[1]))

calculate_branch_energy(export_df, base_year, rule, strategies, energy_fn) ==
    IF energy_fn # "None" THEN custom_energy_fn(export_df, base_year, rule, strategies)
    ELSE LET iv == InputVars(rule, strategies) IN
         IF iv.raised # "" THEN iv
         ELSE LET series_list == default_input_series_provider(
                                     export_df, base_year, RulePath(rule), iv.value)
              IN IF series_list.raised # "" THEN series_list
                 ELSE IF series_list.value = <<>> THEN Return(Zero)
                 ELSE Return(SeriesSum(Combined(series_list.value, Len(series_list.value))))

\* mutant: the zero guard is dropped
ScaleFactorUnguarded(leap_total, esto_total) ==
    IF leap_total = Zero THEN esto_total ELSE Quot(esto_total, leap_total)

compute_scale_factor(leap_total, esto_total) ==
    IF leap_total = Zero THEN One ELSE Quot(esto_total, leap_total)

\* len(str(col)) == 4 and str(col).isdigit()
IsYearColumn(col) == col >= 1000 /\ col <= 9999

RECURSIVE Sorted(_)
\* sorted(year_columns, key=lambda c: int(str(c)))
Sorted(S) ==
    IF S = {} THEN <<>>
    ELSE LET m == CHOOSE x \in S : \A y \in S : x <= y
         IN <<m>> \o Sorted(S \ {m})

\* mutant: the past-years flag acts without the future-years flag
YearColumnsPastAlone(export_df, base_year, include_future_years, apply_adjustments_to_past_years) ==
    IF ~include_future_years /\ ~apply_adjustments_to_past_years THEN <<base_year>>
    ELSE Sorted({col \in export_df.columns :
                    /\ IsYearColumn(col)
                    /\ (apply_adjustments_to_past_years \/ col >= base_year)
                    /\ (include_future_years \/ col <= base_year)})

get_adjustment_year_columns(export_df, base_year, include_future_years, apply_adjustments_to_past_years) ==
    IF ~include_future_years THEN <<base_year>>
    ELSE Sorted({col \in export_df.columns :
                    /\ IsYearColumn(col)
                    /\ (apply_adjustments_to_past_years \/ col >= base_year)})

\* mutant: every column of the masked rows is scaled
ScaleCellsAllColumns(export_df, mask, years, scale_factor) ==
    [export_df EXCEPT !.rows =
        [i \in 1..Len(export_df.rows) |->
            IF i \in mask
            THEN [export_df.rows[i] EXCEPT !.vals =
                    [col \in export_df.columns |-> Times(export_df.rows[i].vals[col], scale_factor)]]
            ELSE export_df.rows[i]]]

\* export_df.loc[mask, year_col] = export_df.loc[mask, year_col] * scale_factor
\* for every year_col of years that is a column
ScaleCells(export_df, mask, years, scale_factor) ==
    [export_df EXCEPT !.rows =
        [i \in 1..Len(export_df.rows) |->
            IF i \in mask
            THEN [export_df.rows[i] EXCEPT !.vals =
                    [col \in export_df.columns |->
                        IF col \in years
                        THEN Times(export_df.rows[i].vals[col], scale_factor)
                        ELSE export_df.rows[i].vals[col]]]
            ELSE export_df.rows[i]]]

RECURSIVE ScaleInputs(_, _, _, _, _, _)
\* the loop over input_vars, after its first n iterations
ScaleInputs(export_df, branch_path, input_vars, n, years, scale_factor) ==
    IF n = 0 THEN export_df
    ELSE LET df == ScaleInputs(export_df, branch_path, input_vars, n - 1, years,
                               scale_factor)
         IN ScaleCells(df, Mask(df, branch_path, input_vars[n]), years, scale_factor)

\* years_to_adjust = list(year_columns or [base_year])
YearsToAdjust(base_year, year_columns) ==
    IF year_columns = <<>> THEN {base_year} ELSE Range(year_columns)

apply_proportional_adjustment(export_df, base_year, rule, scale_factor, strategies, year_columns) ==
    LET iv == InputVars(rule, strategies) IN
    IF iv.raised # "" THEN iv
    ELSE Return(ScaleInputs(export_df, RulePath(rule), iv.value, Len(iv.value),
                            YearsToAdjust(base_year, year_columns), scale_factor))

\* a caller-supplied adjustment_fn: only the first input variable of the rule
\* is scaled, so that a product of inputs scales by scale_factor
custom_adjustment_fn(export_df, base_year, rule, scale_factor, strategies, year_columns) ==
    LET iv == InputVars(rule, strategies) IN
    IF iv.raised # "" THEN iv
    ELSE Return(ScaleInputs(export_df, RulePath(rule), <<iv.value[1]>>, 1,
                            YearsToAdjust(base_year, year_columns), scale_factor))

\* adjust = adjustment_fn or _apply_proportional_adjustment
adjust(adjustment_fn, export_df, base_year, rule, scale_factor, strategies, year_columns) ==
    IF adjustment_fn # "None"
    THEN custom_adjustment_fn(export_df, base_year, rule, scale_factor, strategies,
                              year_columns)
    ELSE apply_proportional_adjustment(export_df, base_year, rule, scale_factor,
                                       strategies, year_columns)

\* {**DEFAULT_STRATEGIES, **(strategies or {})} with strategies=None
strategy_lookup == DEFAULT_STRATEGIES

RECURSIVE LeapTotalStopAtError(_, _, _, _, _)
\* mutant: the first rule whose calculation raises ends the summing of the key
LeapTotalStopAtError(working_df, base_year, rules, n, energy_fn) ==
    LET failing == {j \in 1..n : calculate_branch_energy(working_df, base_year, rules[j], strategy_lookup, energy_fn).raised # ""}
    IN IF n = 0 THEN Zero
       ELSE IF failing # {}
            THEN LeapTotalStopAtError(working_df, base_year, rules, (CHOOSE j \in failing : \A i \in failing : j <= i) - 1, energy_fn)
            ELSE Plus(LeapTotalStopAtError(working_df, base_year, rules, n - 1, energy_fn),
                      calculate_branch_energy(working_df, base_year, rules[n], strategy_lookup, energy_fn).value)

RECURSIVE LeapTotal(_, _, _, _, _)
\* leap_total after the first n rules: a rule whose calculation raises counts 0.0
LeapTotal(working_df, base_year, rules, n, energy_fn) ==
    IF n = 0 THEN Zero
    ELSE LET energy == calculate_branch_energy(working_df, base_year, rules[n],
                                               strategy_lookup, energy_fn)
         IN Plus(LeapTotal(working_df, base_year, rules, n - 1, energy_fn),
                 IF energy.raised # "" THEN Zero ELSE energy.value)

\* esto_energy_totals.get(esto_key, 0.0)
EstoTotal(esto_energy_totals, esto_key) ==
    IF esto_key \in DOMAIN esto_energy_totals THEN esto_energy_totals[esto_key] ELSE Zero

\* mutant: the tolerance is ignored
NeedsAdjustmentNoTolerance(leap_total, esto_total, scale_factor, tol) ==
    leap_total # esto_total /\ scale_factor # One

\* abs(leap_total - esto_total) > tolerance and scale_factor != 1.0
NeedsAdjustment(leap_total, esto_total, scale_factor, tol) ==
    Greater(AbsRat(Minus(leap_total, esto_total)), tol) /\ scale_factor # One

RECURSIVE AdjustRules(_, _, _, _, _, _, _, _)
\* the loop 'for rule in rules: adjust(...)' after its first n iterations:
\* the table, adjusted_paths and the invocations made
AdjustRules(working_df, key_index, rules, n, a, scale_factor, years, adjustment_fn) ==
    IF n = 0 THEN [df |-> working_df, adjusted_paths |-> <<>>, log |-> <<>>]
    ELSE LET before == AdjustRules(working_df, key_index, rules, n - 1, a, scale_factor,
                                   years, adjustment_fn)
             done == adjust(adjustment_fn, before.df, a.base_year, rules[n],
                            scale_factor, strategy_lookup, years)
         IN [df |-> IF done.raised = "" THEN done.value ELSE before.df,
             adjusted_paths |-> IF done.raised = ""
                                THEN Append(before.adjusted_paths, RulePath(rules[n]))
                                ELSE before.adjusted_paths,
             log |-> Append(before.log,
                            [key |-> key_index, rule |-> n,
                             scale_factor |-> scale_factor, raised |-> done.raised])]

\* mutant: working_df is the caller's table itself
DataFrameAlias(ref) == ref

\* export_df.copy(): a new DataFrame object
DataFrameCopy(ref) == "working_df"

-----------------------------------------------------------------------------
(* reconcile_energy_use *)

\* mutant: the keys are visited from the last to the first
ItemsReversed(branch_mapping_rules) ==
    [j \in 1..Len(branch_mapping_rules) |-> branch_mapping_rules[Len(branch_mapping_rules) + 1 - j]]

\* branch_mapping_rules.items(): the (esto_key, rules) pairs in the mapping's
\* iteration order
Items(branch_mapping_rules) == branch_mapping_rules

\* mutant: the combination of functions is not checked
ConfigErrorNever(energy_fn, adjustment_fn) == FALSE

\* `if energy_fn and not adjustment_fn: raise ValueError(...)`
ConfigError(energy_fn, adjustment_fn) == energy_fn # "None" /\ adjustment_fn = "None"

RecStart ==
    /\ UNCHANGED <<matVars, audVars>>
    /\ rpc = "idle"
    /\ working' = DataFrameCopy("export_df")
    /\ frames' = [frames EXCEPT ![working'] = frames["export_df"]]
    /\ IF ConfigError(rargs.energy_fn, rargs.adjustment_fn)
       THEN /\ rpc' = "raised"
            /\ ycols' = <<>>
       ELSE /\ rpc' = "keys"
            /\ ycols' = get_adjustment_year_columns(
                            frames'[working'], rargs.base_year,
                            rargs.apply_adjustments_to_future_years,
                            rargs.apply_adjustments_to_past_years)
    /\ kidx' = 1
    /\ UNCHANGED <<rargs, results, adjusts>>

RecKey ==
    /\ UNCHANGED <<matVars, audVars>>
    /\ rpc = "keys"
    /\ kidx <= Len(rargs.branch_mapping_rules)
    /\ LET esto_key == Items(rargs.branch_mapping_rules)[kidx].key
           rules == Items(rargs.branch_mapping_rules)[kidx].rules
           leap_total == LeapTotal(frames[working], rargs.base_year, rules, Len(rules),
                                   rargs.energy_fn)
           esto_total == EstoTotal(rargs.esto_energy_totals, esto_key)
           scale_factor == compute_scale_factor(leap_total, esto_total)
           adjusted ==
               IF NeedsAdjustment(leap_total, esto_total, scale_factor, rargs.tolerance)
               THEN AdjustRules(frames[working], kidx, rules, Len(rules), rargs,
                                scale_factor, ycols, rargs.adjustment_fn)
               ELSE AdjustRules(frames[working], kidx, rules, 0, rargs, scale_factor,
                                ycols, rargs.adjustment_fn)
       IN /\ frames' = [frames EXCEPT ![working] = adjusted.df]
          /\ adjusts' = adjusts \o adjusted.log
          /\ results' = Append(results,
                               [key |-> esto_key, leap |-> leap_total,
                                esto |-> esto_total, scale_factor |-> scale_factor,
                                adjusted_paths |-> adjusted.adjusted_paths])
    /\ kidx' = kidx + 1
    /\ UNCHANGED <<rargs, working, ycols, rpc>>

RecReturn ==
    /\ UNCHANGED <<matVars, audVars>>
    /\ rpc = "keys"
    /\ kidx > Len(rargs.branch_mapping_rules)
    /\ rpc' = "returned"
    /\ UNCHANGED <<rargs, frames, working, ycols, kidx, results, adjusts>>

-----------------------------------------------------------------------------
(* energy_use_reconciliation.py: adjustment reporting helpers.  The two    *)
(* tables handed to the helpers have the same rows under the same index    *)
(* (adjusted_df is a copy of original_df with cells changed), so adj_vals  *)
(* - orig_vals pairs the cells by position; the tables carry no Scenario   *)
(* or Economy column.                                                      *)

RECURSIVE PosGt(_, _, _, _)
\* a/b > c/d for a, c >= 0 and b, d > 0, by comparing the integer parts and
\* then the reciprocals of the fractional parts
PosGt(a, b, c, d) ==
    IF a \div b # c \div d THEN a \div b > c \div d
    ELSE IF a % b = 0 THEN FALSE
    ELSE IF c % d = 0 THEN TRUE
    ELSE PosGt(d, c % d, b, a % b)

\* s.abs().gt(t) cell by cell: |x| > |t|, False on NaN
gt(x, t) == ~IsNaN(x) /\ ~IsNaN(t) /\ PosGt(AbsInt(x[1]), x[2], AbsInt(t[1]), t[2])

\* one row of the long-form change table
ChangeRow(path, var, year, original, adjusted, abs_change, pct_change) ==
    [path |-> path, var |-> var, year |-> year, original |-> original,
     adjusted |-> adjusted, abs_change |-> abs_change, pct_change |-> pct_change]

\* diff = adj_vals - orig_vals, one cell
Diff(original_df, adjusted_df, i, year_col) ==
    Minus(adjusted_df.rows[i].vals[year_col], original_df.rows[i].vals[year_col])

\* mutant: a cell changed by exactly the threshold is reported too
ChangedMaskAtLeast(original_df, adjusted_df, year_col, tol) ==
    {i \in 1..Len(original_df.rows) :
        LET diff == Diff(original_df, adjusted_df, i, year_col)
        IN ~IsNaN(diff) /\ (gt(diff, tol) \/ AbsRat(diff) = tol)}

\* mask = ~((orig_vals.isna()) & (adj_vals.isna())) & diff.abs().gt(tol)
ChangedMask(original_df, adjusted_df, year_col, tol) ==
    {i \in 1..Len(original_df.rows) :
        /\ ~(IsNaN(original_df.rows[i].vals[year_col]) /\ IsNaN(adjusted_df.rows[i].vals[year_col]))
        /\ gt(Diff(original_df, adjusted_df, i, year_col), tol)}

\* pct_change = diff / orig_vals.replace(0, pd.NA), one cell
PctChange(diff, orig) == IF orig = Zero THEN NaN ELSE Quot(diff, orig)

RECURSIVE YearFrameRows(_, _, _, _, _)
\* the rows of the frame of one year: the masked rows among the first n, in
\* row order
YearFrameRows(original_df, adjusted_df, year_col, mask, n) ==
    IF n = 0 THEN <<>>
    ELSE LET before == YearFrameRows(original_df, adjusted_df, year_col, mask, n - 1)
             diff == Diff(original_df, adjusted_df, n, year_col)
         IN IF n \in mask
            THEN Append(before,
                        ChangeRow(original_df.rows[n].path, original_df.rows[n].var, year_col,
                                  original_df.rows[n].vals[year_col],
                                  adjusted_df.rows[n].vals[year_col], diff,
                                  PctChange(diff, original_df.rows[n].vals[year_col])))
            ELSE before

RECURSIVE ConcatFrames(_, _, _, _, _)
\* pd.concat(frames, ignore_index=True) after the first n years of the loop;
\* a year that is no column of both tables adds no frame
ConcatFrames(original_df, adjusted_df, years, tol, n) ==
    IF n = 0 THEN <<>>
    ELSE LET before == ConcatFrames(original_df, adjusted_df, years, tol, n - 1)
             year_col == years[n]
         IN IF year_col \notin original_df.columns \/ year_col \notin adjusted_df.columns
            THEN before
            ELSE before \o YearFrameRows(original_df, adjusted_df, year_col,
                                         ChangedMask(original_df, adjusted_df, year_col, tol),
                                         Len(original_df.rows))

\* the position of a row in a sequence sorted by descending |Abs Change|:
\* behind every row whose magnitude is not smaller
InsertByMagnitude(sorted, row) ==
    LET k == Cardinality({j \in 1..Len(sorted) : ~gt(row.abs_change, sorted[j].abs_change)})
    IN SubSeq(sorted, 1, k) \o <<row>> \o SubSeq(sorted, k + 1, Len(sorted))

RECURSIVE SortByAbsChange(_, _)
\* combined.sort_values(by="Abs Change", key=lambda s: s.abs(), ascending=False)
\* of the first n rows; rows of equal magnitude keep their order
SortByAbsChange(combined, n) ==
    IF n = 0 THEN <<>>
    ELSE InsertByMagnitude(SortByAbsChange(combined, n - 1), combined[n])

build_change_table_for_years(original_df, adjusted_df, years, tol) ==
    IF years = <<>> THEN <<>>
    ELSE LET combined == ConcatFrames(original_df, adjusted_df, years, tol, Len(years))
         IN SortByAbsChange(combined, Len(combined))

\* an Optional[pd.DataFrame]: None, or a table
None == [none |-> TRUE]
Some(table) == [none |-> FALSE, table |-> table]

\* mutant: the base year stays among the future years
FutureYearsWithBase(adjusted_df, base_year) ==
    get_adjustment_year_columns(adjusted_df, base_year, TRUE, FALSE)

\* [year for year in get_adjustment_year_columns(adjusted_df, base_year,
\*  include_future_years=True) if year != base_year]
FutureYears(adjusted_df, base_year) ==
    SelectSeq(get_adjustment_year_columns(adjusted_df, base_year, TRUE, FALSE),
              LAMBDA year : year # base_year)

build_adjustment_change_tables(original_df, adjusted_df, base_year, include_future_years, tol) ==
    [base_changes |-> build_change_table_for_years(original_df, adjusted_df, <<base_year>>, tol),
     future_changes |->
        IF include_future_years
        THEN Some(build_change_table_for_years(original_df, adjusted_df,
                                               FutureYears(adjusted_df, base_year), tol))
        ELSE None]

\* tol: float = 1e-9
DefaultTol == Rat(1, 1000000000)

\* the host audits a finished reconciliation: original_df is the table it
\* passed to reconcile_energy_use, adjusted_df the returned working copy
AuditReconciliation ==
    /\ UNCHANGED <<matVars, recVars>>
    /\ rpc = "returned"
    /\ apc = "idle"
    /\ \E include_future_years \in BOOLEAN :
          aargs' = [op |-> "build_adjustment_change_tables",
                    original_df |-> frames["export_df"], adjusted_df |-> frames[working],
                    base_year |-> rargs.base_year,
                    include_future_years |-> include_future_years, tol |-> DefaultTol]
    /\ changes' = build_adjustment_change_tables(aargs'.original_df, aargs'.adjusted_df, aargs'.base_year, aargs'.include_future_years, aargs'.tol)
    /\ apc' = "done"

-----------------------------------------------------------------------------
(* Inputs of reconcile_energy_use *)

Branch(segments) == build_branch_path(segments, "Demand")

Years3(a, b, c) == [col \in {2021, 2022, 2023} |->
                      IF col = 2021 THEN a ELSE IF col = 2022 THEN b ELSE c]

Ints3(a, b, c) == Years3(Number(a), Number(b), Number(c))

\* the input rows of a branch share an index label
SharedIndex ==
    DataFrame({2021, 2022, 2023},
      << Row(0, Branch(<<"X">>), "Activity Level", Ints3(8, 10, 12)),
         Row(0, Branch(<<"X">>), "Final Energy Intensity", Ints3(4, 5, 6)),
         Row(1, Branch(<<"Y">>), "Activity Level", Ints3(3, 4, 5)),
         Row(1, Branch(<<"Y">>), "Final Energy Intensity", Ints3(5, 5, 5)) >>)

\* the same rows under the default index 0..n-1
RangeIndex ==
    DataFrame({2021, 2022, 2023},
      << Row(0, Branch(<<"X">>), "Activity Level", Ints3(8, 10, 12)),
         Row(1, Branch(<<"X">>), "Final Energy Intensity", Ints3(4, 5, 6)),
         Row(2, Branch(<<"Y">>), "Activity Level", Ints3(3, 4, 5)),
         Row(3, Branch(<<"Y">>), "Final Energy Intensity", Ints3(5, 5, 5)) >>)

StockShared ==
    DataFrame({2021, 2022, 2023},
      << Row(0, Branch(<<"X">>), "Stock", Ints3(2, 2, 3)),
         Row(0, Branch(<<"X">>), "Mileage", Ints3(5, 5, 5)),
         Row(0, Branch(<<"X">>), "Fuel Economy", Ints3(4, 5, 5)),
         Row(1, Branch(<<"Y">>), "Activity Level", Ints3(3, 4, 5)),
         Row(1, Branch(<<"Y">>), "Final Energy Intensity", Ints3(5, 5, 5)) >>)

\* branch Y has no Final Energy Intensity row
MissingInput ==
    DataFrame({2021, 2022, 2023},
      << Row(0, Branch(<<"X">>), "Activity Level", Ints3(8, 10, 12)),
         Row(0, Branch(<<"X">>), "Final Energy Intensity", Ints3(4, 5, 6)),
         Row(1, Branch(<<"Y">>), "Activity Level", Ints3(3, 4, 5)) >>)

\* two rows per (branch, variable), e.g. two scenarios
TwoScenarios ==
    DataFrame({2021, 2022, 2023},
      << Row(0, Branch(<<"X">>), "Activity Level", Ints3(8, 10, 12)),
         Row(0, Branch(<<"X">>), "Final Energy Intensity", Ints3(4, 5, 6)),
         Row(1, Branch(<<"X">>), "Activity Level", Ints3(1, 2, 3)),
         Row(1, Branch(<<"X">>), "Final Energy Intensity", Ints3(5, 5, 5)),
         Row(2, Branch(<<"Y">>), "Activity Level", Ints3(3, 4, 5)),
         Row(2, Branch(<<"Y">>), "Final Energy Intensity", Ints3(5, 5, 5)) >>)

\* a blank cell, a negative value, and a numeric column that is not a year
Sparse ==
    DataFrame({300, 2021, 2022},
      << Row(0, Branch(<<"X">>), "Activity Level",
             [col \in {300, 2021, 2022} |-> IF col = 300 THEN Number(7) ELSE Number(-10)]),
         Row(0, Branch(<<"X">>), "Final Energy Intensity",
             [col \in {300, 2021, 2022} |-> Number(5)]),
         Row(1, Branch(<<"Y">>), "Activity Level",
             [col \in {300, 2021, 2022} |-> Number(4)]),
         Row(1, Branch(<<"Y">>), "Final Energy Intensity",
             [col \in {300, 2021, 2022} |-> IF col = 2022 THEN NaN ELSE Number(5)]) >>)

Datasets == {SharedIndex, RangeIndex, StockShared, MissingInput, TwoScenarios, Sparse}

Rule(branch_tuple, calculation_strategy, root, input_variables_override) ==
    [branch_tuple |-> branch_tuple, calculation_strategy |-> calculation_strategy,
     root |-> root, input_variables_override |-> input_variables_override]

Road == <<"15_02_road", "07_01_motor_gasoline">>
Rail == <<"15_03_rail", "07_07_gas_diesel_oil">>

Item(esto_key, rules) == [key |-> esto_key, rules |-> rules]

\* branch_mapping_rules, as its items() in iteration order
RuleMappings ==
    { << Item(Road, <<Rule(<<"X">>, "Intensity", "Demand", <<>>)>>),
         Item(Rail, <<Rule(<<"Demand", "Y">>, "Intensity", "", <<>>)>>) >>,
      << Item(Road, <<Rule(<<"X">>, "Intensity", "Demand", <<>>),
                      Rule(<<"Y">>, "Intensity", "Demand", <<>>)>>) >>,
      << Item(Road, <<Rule(<<"X">>, "Stock", "Demand", <<>>)>>),
         Item(Rail, <<Rule(<<"Y">>, "Intensity", "Demand", <<"Activity Level">>)>>) >>,
      << Item(Rail, <<Rule(<<"X">>, "Intensity", "Demand", <<"Activity Level">>)>>),
         Item(Road, <<Rule(<<"X">>, "Intensity", "Demand", <<"Activity Level">>),
                      Rule(<<"X">>, "Intensity", "Demand", <<"Activity Level">>)>>) >>,
      << Item(Road, <<Rule(<<"X">>, "Power", "Demand", <<>>),
                      Rule(<<"Y">>, "Intensity", "Demand", <<>>)>>) >>,
      << Item(Road, <<Rule(<<"Y">>, "Intensity", "Demand", <<>>),
                      Rule(<<"X">>, "Intensity", "Demand", <<>>)>>),
         Item(Rail, <<Rule(<<"Z">>, "Intensity", "Demand", <<>>)>>) >> }

\* esto_energy_totals
ReferenceTotals ==
    { (Road :> Number(75)) @@ (Rail :> Number(20)),
      (Road :> Number(50)),
      (Road :> Rat(101, 2)) @@ (Rail :> Number(30)),
      (Road :> Number(0)) @@ (Rail :> Number(25)) }

\* tolerance: float = 1e-6, or a tolerance of 0.5 chosen by the caller
Tolerances == {Rat(1, 1000000), Rat(1, 2)}

RecArgs ==
    { [export_df |-> df, base_year |-> by, branch_mapping_rules |-> bmr,
       esto_energy_totals |-> eet, tolerance |-> tol,
       adjustment_fn |-> af, energy_fn |-> ef,
       apply_adjustments_to_future_years |-> fu,
       apply_adjustments_to_past_years |-> pa] :
      df \in Datasets, by \in {2022, 2023}, bmr \in RuleMappings,
      eet \in ReferenceTotals, tol \in Tolerances,
      af \in {"None", "custom"}, ef \in {"None", "custom"},
      fu \in BOOLEAN, pa \in BOOLEAN }

\* the materializers are not part of a reconciliation run
NoArgs == [op |-> "None"]
NoFrame == DataFrame({}, <<>>)

InitRec ==
    /\ tree = {}
    /\ tree0 = {}
    /\ calls = <<>>
    /\ args = NoArgs
    /\ pc = "off"
    /\ order = <<>>
    /\ idx = 0
    /\ seg = 0
    /\ parent = NoHandle
    /\ diag = ""
    /\ created = <<>>
    /\ skipped = <<>>
    /\ failed = <<>>
    /\ outcome = NotCalled
    /\ prev = NoRun
    /\ faults = 0
    /\ rargs \in RecArgs
    /\ frames = [export_df |-> rargs.export_df, working_df |-> NoFrame]
    /\ working = "None"
    /\ ycols = <<>>
    /\ kidx = 0
    /\ results = <<>>
    /\ adjusts = <<>>
    /\ rpc = "idle"
    /\ aargs = NoAuditArgs
    /\ changes = <<>>
    /\ apc = "idle"

NextRec ==
    \/ RecStart
    \/ RecKey
    \/ RecReturn
    \/ AuditReconciliation

SpecRec == InitRec /\ [][NextRec]_vars

-----------------------------------------------------------------------------
(* Inputs of the adjustment reporting helpers *)

Vals4(a, b, c, d) ==
    [col \in {2021, 2022, 2023, 20240} |->
        IF col = 2021 THEN a ELSE IF col = 2022 THEN b ELSE IF col = 2023 THEN c ELSE d]

\* a table with a zero cell, a blank cell and a numeric column that is no year
AuditOriginal ==
    DataFrame({2021, 2022, 2023, 20240},
      << Row(0, Branch(<<"X">>), "Activity Level",
             Vals4(Number(8), Number(10), Number(12), Number(1))),
         Row(1, Branch(<<"X">>), "Final Energy Intensity",
             Vals4(Number(4), Zero, NaN, Number(1))),
         Row(2, Branch(<<"Y">>), "Activity Level",
             Vals4(Number(3), Number(4), Number(5), Number(1))) >>)

CellEdit(i, col, value) == [i |-> i, col |-> col, value |-> value]

\* the cells an adjustment may have rewritten, with their new values
CellEdits ==
    { CellEdit(1, 2022, Number(20)), CellEdit(2, 2022, Number(5)),
      CellEdit(3, 2022, Number(1)), CellEdit(1, 2023, Number(2)),
      CellEdit(2, 2023, Number(7)), CellEdit(3, 2021, Number(5)),
      CellEdit(2, 2021, NaN), CellEdit(1, 20240, Number(11)) }

\* df.copy() with the cells of the edits overwritten
Edited(df, edits) ==
    DataFrame(df.columns,
      [i \in 1..Len(df.rows) |->
          [df.rows[i] EXCEPT !.vals =
              [col \in df.columns |->
                  IF \E e \in edits : e.i = i /\ e.col = col
                  THEN (CHOOSE e \in edits : e.i = i /\ e.col = col).value
                  ELSE df.rows[i].vals[col]]]])

AuditTolerances == {DefaultTol, Number(2)}

YearLists == { <<>>, <<2022>>, <<2023, 2021>>, <<2021, 2022, 2023>>, <<2022, 2024>> }

AuditArgs ==
    { [op |-> "build_change_table_for_years", original_df |-> AuditOriginal,
       adjusted_df |-> Edited(AuditOriginal, edits), years |-> years, tol |-> tol] :
      edits \in SUBSET CellEdits, years \in YearLists, tol \in AuditTolerances }
    \cup
    { [op |-> "build_adjustment_change_tables", original_df |-> AuditOriginal,
       adjusted_df |-> Edited(AuditOriginal, edits), base_year |-> base_year,
       include_future_years |-> include_future_years, tol |-> tol] :
      edits \in SUBSET CellEdits, base_year \in {2021, 2022, 2023},
      include_future_years \in BOOLEAN, tol \in AuditTolerances }

InitAudit ==
    /\ tree = {}
    /\ tree0 = {}
    /\ calls = <<>>
    /\ args = NoArgs
    /\ pc = "off"
    /\ order = <<>>
    /\ idx = 0
    /\ seg = 0
    /\ parent = NoHandle
    /\ diag = ""
    /\ created = <<>>
    /\ skipped = <<>>
    /\ failed = <<>>
    /\ outcome = NotCalled
    /\ prev = NoRun
    /\ faults = 0
    /\ rargs = NoRecArgs
    /\ frames = NoFrames
    /\ working = "None"
    /\ ycols = <<>>
    /\ kidx = 0
    /\ results = <<>>
    /\ adjusts = <<>>
    /\ rpc = "off"
    /\ aargs \in AuditArgs
    /\ changes = <<>>
    /\ apc = "idle"

ChangeTableCall ==
    /\ UNCHANGED <<matVars, recVars>>
    /\ apc = "idle"
    /\ aargs.op = "build_change_table_for_years"
    /\ changes' = build_change_table_for_years(aargs.original_df, aargs.adjusted_df, aargs.years, aargs.tol)
    /\ apc' = "done"
    /\ UNCHANGED aargs

ChangeTablesCall ==
    /\ UNCHANGED <<matVars, recVars>>
    /\ apc = "idle"
    /\ aargs.op = "build_adjustment_change_tables"
    /\ rpc = "off"
    /\ changes' = build_adjustment_change_tables(aargs.original_df, aargs.adjusted_df, aargs.base_year, aargs.include_future_years, aargs.tol)
    /\ apc' = "done"
    /\ UNCHANGED aargs

NextAudit ==
    \/ ChangeTableCall
    \/ ChangeTablesCall

SpecAudit == InitAudit /\ [][NextAudit]_vars

-----------------------------------------------------------------------------
(* Vocabulary of the properties of reconcile_energy_use *)

\* the step processes one key of branch_mapping_rules
RecKeyStep == rpc = "keys" /\ kidx <= Len(rargs.branch_mapping_rules) /\ kidx' = kidx + 1

KeyRules(k) == rargs.branch_mapping_rules[k].rules

\* the key's modeled total on a table
ModeledTotal(df, k) ==
    LeapTotal(df, rargs.base_year, KeyRules(k), Len(KeyRules(k)), rargs.energy_fn)

ReferenceTotal(k) ==
    IF rargs.branch_mapping_rules[k].key \in DOMAIN rargs.esto_energy_totals
    THEN rargs.esto_energy_totals[rargs.branch_mapping_rules[k].key]
    ELSE Zero

OutsideTolerance(m, r) ==
    \/ Greater(Minus(m, r), rargs.tolerance)
    \/ Greater(Minus(r, m), rargs.tolerance)

DefaultOptions ==
    /\ rargs.tolerance = Rat(1, 1000000)
    /\ rargs.adjustment_fn = "None"
    /\ rargs.energy_fn = "None"
    /\ ~rargs.apply_adjustments_to_future_years
    /\ ~rargs.apply_adjustments_to_past_years

\* the rule's energy is the product of the series of its strategy
Multiplicative(rule) ==
    /\ rule.input_variables_override = <<>>
    /\ rule.calculation_strategy \in {"Intensity", "Stock"}

\* the (rule, input variable) pairs of key k that match row i
Matches(df, k, i) ==
    UNION { { <<n, v>> : v \in { w \in 1..Len(InputVars(KeyRules(k)[n], strategy_lookup).value) :
                                   /\ df.rows[i].path = RulePath(KeyRules(k)[n])
                                   /\ df.rows[i].var =
                                        InputVars(KeyRules(k)[n], strategy_lookup).value[w] } } :
            n \in 1..Len(KeyRules(k)) }

RECURSIVE TimesPower(_, _, _)
\* x * s^n
TimesPower(x, s, n) == IF n = 0 THEN x ELSE Times(TimesPower(x, s, n - 1), s)

\* the year columns the adjustment writes
SelectedYears == IF ycols = <<>> THEN {rargs.base_year} ELSE Range(ycols)

-----------------------------------------------------------------------------
\* C1: for a key whose rules all use the default multiplicative calculation,
\* with modeled total m != 0, reference total r and |m - r| > tolerance,
\* reconcile_energy_use with default options multiplies the base-period value
\* of every matched input row by r/m, and the key's modeled total recomputed
\* on the adjusted table is r.
C1_Original ==
    [][(/\ RecKeyStep
        /\ DefaultOptions
        /\ \A n \in 1..Len(KeyRules(kidx)) : Multiplicative(KeyRules(kidx)[n])
        /\ ModeledTotal(frames[working], kidx) # Zero
        /\ OutsideTolerance(ModeledTotal(frames[working], kidx), ReferenceTotal(kidx)))
       =>
       LET m == ModeledTotal(frames[working], kidx)
           r == ReferenceTotal(kidx)
       IN /\ \A i \in 1..Len(frames[working].rows) :
                Matches(frames[working], kidx, i) # {} =>
                   frames'[working].rows[i].vals[rargs.base_year] =
                      Times(frames[working].rows[i].vals[rargs.base_year], Quot(r, m))
          /\ ModeledTotal(frames'[working], kidx) = r]_vars

\* the case m = 50, r = 75 under default options: the scale factor is 1.5 and
\* the key's modeled total recomputed on the adjusted table is 112.5
C1_Witness ==
    /\ DefaultOptions
    /\ rpc = "keys"
    /\ kidx = 2
    /\ \A n \in 1..Len(KeyRules(1)) : Multiplicative(KeyRules(1)[n])
    /\ results[1].leap = Number(50)
    /\ results[1].esto = Number(75)
    /\ results[1].scale_factor = Rat(3, 2)
    /\ results[1].adjusted_paths # <<>>
    /\ ModeledTotal(frames[working], 1) = Rat(225, 2)

-----------------------------------------------------------------------------
\* C4: reconcile_energy_use never modifies the caller's table: at every point
\* of every call (default or custom functions, returning or raising) every
\* cell of export_df equals its value before the call.
C4_CallerTableUntouched == rpc # "off" => frames["export_df"] = rargs.export_df

\* a call with a custom adjustment function returned a scaled working copy
C4_Witness ==
    /\ rpc = "returned"
    /\ rargs.adjustment_fn = "custom"
    /\ working # "None"
    /\ frames[working] # rargs.export_df
    /\ adjusts # <<>>

-----------------------------------------------------------------------------
\* C5: processing key k invokes the adjustment, once for every rule of k, if
\* and only if |modeled_total(k) - reference_total(k)| > tolerance and
\* scale(k) != 1; with the default adjustment the step multiplies the cells at
\* the selected year columns of every row matched by an input variable of a
\* rule of k by scale(k), once per matching rule, and leaves every cell alone
\* otherwise; when the modeled total equals the reference total, scale(k) = 1
\* and no cell changes.
C5_ScalesIffOutsideTolerance ==
    [][RecKeyStep =>
       LET row == results'[kidx]
           needed == /\ OutsideTolerance(row.leap, row.esto)
                     /\ row.scale_factor # One
           invoked == SubSeq(adjusts', Len(adjusts) + 1, Len(adjusts'))
           old == frames[working]
           new == frames'[working]
       IN /\ row.leap = ModeledTotal(old, kidx)
          /\ row.esto = ReferenceTotal(kidx)
          /\ needed => /\ Len(invoked) = Len(KeyRules(kidx))
                       /\ \A n \in 1..Len(invoked) :
                             /\ invoked[n].rule = n
                             /\ invoked[n].key = kidx
                             /\ invoked[n].scale_factor = row.scale_factor
          /\ ~needed => invoked = <<>> /\ new = old
          /\ rargs.adjustment_fn = "None" =>
                \A i \in 1..Len(old.rows) : \A col \in old.columns :
                   new.rows[i].vals[col] =
                      IF needed /\ col \in SelectedYears
                      THEN TimesPower(old.rows[i].vals[col], row.scale_factor,
                                      Cardinality(Matches(old, kidx, i)))
                      ELSE old.rows[i].vals[col]
          /\ row.leap = row.esto => row.scale_factor = One /\ new = old]_vars

\* one call scaled the rows of a key outside the tolerance and left those of a
\* key whose modeled total equals its reference total alone
C5_Witness ==
    /\ rpc = "returned"
    /\ rargs.adjustment_fn = "None"
    /\ \E j \in 1..Len(results) :
          /\ results[j].adjusted_paths # <<>>
          /\ results[j].scale_factor = Rat(3, 2)
    /\ \E j \in 1..Len(results) :
          /\ results[j].leap = results[j].esto
          /\ results[j].leap # Zero
          /\ results[j].adjusted_paths = <<>>
    /\ \E i \in 1..Len(frames[working].rows) :
          frames[working].rows[i].vals[rargs.base_year] =
             Times(rargs.export_df.rows[i].vals[rargs.base_year], Rat(3, 2))
    /\ frames[working] # rargs.export_df

-----------------------------------------------------------------------------
\* C6: the scale factor reported for a key, and passed to every adjustment
\* made for it, is reference_total / modeled_total when the modeled total is
\* not 0 and exactly 1 when it is 0; the reference total is the supplied
\* value, or 0 for a key without entry.
C6_ScaleFactor ==
    /\ \A j \in 1..Len(results) :
          /\ results[j].esto =
                IF rargs.branch_mapping_rules[j].key \in DOMAIN rargs.esto_energy_totals
                THEN rargs.esto_energy_totals[rargs.branch_mapping_rules[j].key]
                ELSE Number(0)
          /\ results[j].leap = Number(0) => results[j].scale_factor = Number(1)
          /\ results[j].leap # Number(0) =>
                Times(results[j].scale_factor, results[j].leap) = results[j].esto
    /\ \A n \in 1..Len(adjusts) :
          /\ adjusts[n].key <= Len(results)
          /\ adjusts[n].scale_factor = results[adjusts[n].key].scale_factor

\* one call met a key with modeled total 0 and a non-zero reference total
\* (scale 1, nothing adjusted) and a key without reference entry (scale 0)
C6_Witness ==
    /\ rpc = "returned"
    /\ \E j \in 1..Len(results) :
          /\ results[j].leap = Zero
          /\ results[j].esto # Zero
          /\ results[j].scale_factor = One
          /\ results[j].adjusted_paths = <<>>
    /\ \E j \in 1..Len(results) :
          /\ rargs.branch_mapping_rules[j].key \notin DOMAIN rargs.esto_energy_totals
          /\ results[j].leap # Zero
          /\ results[j].scale_factor = Zero
          /\ \E n \in 1..Len(adjusts) : adjusts[n].key = j /\ adjusts[n].raised = ""

-----------------------------------------------------------------------------
\* the year columns of the caller's table: the columns with a 4-digit name
YearColumnsOfInput == {col \in rargs.export_df.columns : col \in 1000..9999}

Ascending(s) == \A i, j \in 1..Len(s) : i < j => s[i] < s[j]

\* C16: the adjustment year columns are the base period alone when future
\* extension is off, whatever the past flag; with future extension on and past
\* extension off exactly the table's year columns >= the base period, in
\* ascending order; columns before the base period only with both flags on.
C16_YearColumns ==
    rpc \in {"keys", "returned"} =>
       /\ ~rargs.apply_adjustments_to_future_years => ycols = <<rargs.base_year>>
       /\ (rargs.apply_adjustments_to_future_years
             /\ ~rargs.apply_adjustments_to_past_years) =>
             /\ Range(ycols) = {col \in YearColumnsOfInput : col >= rargs.base_year}
             /\ Ascending(ycols)
       /\ (rargs.apply_adjustments_to_future_years
             /\ rargs.apply_adjustments_to_past_years) =>
             /\ Range(ycols) = YearColumnsOfInput
             /\ Ascending(ycols)
       /\ (\E i \in 1..Len(ycols) : ycols[i] < rargs.base_year) =>
             /\ rargs.apply_adjustments_to_future_years
             /\ rargs.apply_adjustments_to_past_years

\* future extension without past extension on a table with an earlier year
\* and a column that is no year
C16_Witness ==
    /\ rpc = "keys"
    /\ rargs.apply_adjustments_to_future_years
    /\ ~rargs.apply_adjustments_to_past_years
    /\ rargs.base_year = 2022
    /\ rargs.export_df.columns = {300, 2021, 2022}
    /\ ycols = <<2022>>

-----------------------------------------------------------------------------
\* C17: a call with a custom energy_fn and no custom adjustment_fn is rejected
\* with the configuration error before any key is processed: no total is
\* computed, no adjustment is made, no table is changed, no summary exists.
C17_ConfigErrorUpFront ==
    (rargs.energy_fn # "None" /\ rargs.adjustment_fn = "None" /\ rpc \notin {"off", "idle"}) =>
       /\ rpc = "raised"
       /\ results = <<>>
       /\ adjusts = <<>>
       /\ frames["export_df"] = rargs.export_df
       /\ frames["working_df"] = rargs.export_df

\* the rejected call, on inputs whose first key would have been adjusted
C17_Witness ==
    /\ rpc = "raised"
    /\ rargs.energy_fn = "custom"
    /\ rargs.adjustment_fn = "None"
    /\ results = <<>>
    /\ rargs.export_df = SharedIndex
    /\ rargs.esto_energy_totals[Road] = Number(75)

-----------------------------------------------------------------------------
\* the variables a rule needs under the default calculation
RequiredVariables(rule) ==
    IF rule.input_variables_override # <<>> THEN rule.input_variables_override
    ELSE IF rule.calculation_strategy \in DOMAIN DEFAULT_STRATEGIES
         THEN DEFAULT_STRATEGIES[rule.calculation_strategy]
         ELSE <<>>

\* a required input series of the rule is missing: the table has the base
\* period but no row for one of the rule's variables at the rule's path
MissingSeries(df, rule) ==
    /\ rargs.base_year \in df.columns
    /\ \E j \in 1..Len(RequiredVariables(rule)) :
          ~\E i \in 1..Len(df.rows) :
               /\ df.rows[i].path = RulePath(rule)
               /\ df.rows[i].var = RequiredVariables(rule)[j]

\* the contribution of one rule to the modeled total, zero when it fails
Contribution(df, rule) ==
    LET energy == calculate_branch_energy(df, rargs.base_year, rule, DEFAULT_STRATEGIES, rargs.energy_fn)
    IN IF energy.raised # "" THEN Zero ELSE energy.value

RECURSIVE SumOfContributions(_, _, _)
SumOfContributions(df, rules, n) ==
    IF n = 0 THEN Zero
    ELSE Plus(SumOfContributions(df, rules, n - 1), Contribution(df, rules[n]))

\* the key processed by the step has a rule with a missing input series,
\* under the default calculation
MissingSeriesStep ==
    /\ RecKeyStep
    /\ rargs.energy_fn = "None"
    /\ \E n \in 1..Len(KeyRules(kidx)) : MissingSeries(frames[working], KeyRules(kidx)[n])

\* the rules with a missing series count zero, the other rules of the key
\* count in full, the key gets its summary row and the loop goes on
DegradesAndContinues ==
    LET df == frames[working]
        present == SelectSeq(KeyRules(kidx), LAMBDA rule : ~MissingSeries(df, rule))
    IN /\ Len(results') = kidx
       /\ results'[kidx].leap = SumOfContributions(df, present, Len(present))
       /\ rpc' = "keys"

\* the modes a caller may wish for; reconcile_energy_use takes no such
\* argument, so a run is the same run under either of them
RequestedModes == {"lenient", "strict"}

\* C18 as stated: a missing input series degrades the rule's contribution to
\* zero and the run continues, unless strict mode is requested, in which case
\* the reconciliation aborts immediately with an error.
C18_Original ==
    [][MissingSeriesStep =>
          \A mode \in RequestedModes :
              IF mode = "strict" THEN rpc' = "raised" ELSE DegradesAndContinues]_vars

\* C18, amended: a missing input series degrades the rule's contribution to
\* zero and the run continues with the remaining rules and keys; no mode
\* aborts it: the only error of a call is the configuration error raised
\* before the first key, and a call that returns has a row for every key.
C18_DegradesAlways ==
    /\ [][MissingSeriesStep => DegradesAndContinues]_vars
    /\ [](rpc = "raised" => (rargs.energy_fn # "None" /\ rargs.adjustment_fn = "None" /\ results = <<>>))
    /\ [](rpc = "returned" => Len(results) = Len(rargs.branch_mapping_rules))

\* the first rule of the first key lacks a series, the second rule counts in
\* full and the second key is processed
C18_Witness ==
    /\ rpc = "returned"
    /\ rargs.energy_fn = "None"
    /\ rargs.export_df = MissingInput
    /\ Len(KeyRules(1)) = 2
    /\ MissingSeries(rargs.export_df, KeyRules(1)[1])
    /\ ~MissingSeries(rargs.export_df, KeyRules(1)[2])
    /\ Len(results) = 2
    /\ results[1].leap = Number(50)
    /\ results[2].leap = Zero

-----------------------------------------------------------------------------
\* the calculation of the rule's energy raises on the table
CalculationFails(df, rule) ==
    calculate_branch_energy(df, rargs.base_year, rule, DEFAULT_STRATEGIES, rargs.energy_fn).raised # ""

\* the columns every summary row has, whether or not a rule failed
TotalsColumns == {"key", "leap", "esto", "scale_factor", "adjusted_paths"}

\* the summary row says that a rule of its key failed: it has an entry
\* besides the totals columns
EnumeratesFailure(row) == DOMAIN row \ TotalsColumns # {}

\* C19 as stated: when the calculation of a rule fails, the key still gets its
\* summary row and the loop goes on, and the failure is raised to the caller
\* or enumerated in the returned summary.
C19_Original ==
    [][(RecKeyStep /\ \E n \in 1..Len(KeyRules(kidx)) : CalculationFails(frames[working], KeyRules(kidx)[n]))
          => \/ rpc' = "raised"
             \/ /\ rpc' = "keys"
                /\ Len(results') = kidx
                /\ EnumeratesFailure(results'[kidx])]_vars

\* a returned call in which the only rule of the second key failed for a
\* missing series: its summary row is the row of a key whose modeled total
\* is zero, and nothing was raised
C19_Witness ==
    /\ rpc = "returned"
    /\ Len(results) = 2
    /\ Len(KeyRules(2)) = 1
    /\ MissingSeries(frames[working], KeyRules(2)[1])
    /\ CalculationFails(frames[working], KeyRules(2)[1])
    /\ RulePath(KeyRules(2)[1]) = Branch(<<"Y">>)
    /\ results[2] = [key |-> Rail, leap |-> Zero, esto |-> Number(20), scale_factor |-> One, adjusted_paths |-> <<>>]

-----------------------------------------------------------------------------
\* the paths of the rules of key k whose adjustment, made by the step, did
\* not raise, in rule order
RECURSIVE AdjustedBy(_, _, _)
AdjustedBy(invoked, k, n) ==
    IF n = 0 THEN <<>>
    ELSE IF invoked[n].raised = ""
         THEN Append(AdjustedBy(invoked, k, n - 1), RulePath(KeyRules(k)[invoked[n].rule]))
         ELSE AdjustedBy(invoked, k, n - 1)

\* C20: the keys are processed in the iteration order of the rule mapping;
\* each step appends the summary row of the next key, carrying the key, its
\* modeled total, its reference total, its scale factor and its adjusted
\* paths, also when nothing was adjusted or its rules failed; a call that
\* returns has exactly one row per key, in the mapping's order.
C20_OneRowPerKeyInOrder ==
    /\ [](rpc \in {"keys", "returned"} =>
            /\ Len(results) = kidx - 1
            /\ \A j \in 1..Len(results) :
                  /\ DOMAIN results[j] = {"key", "leap", "esto", "scale_factor", "adjusted_paths"}
                  /\ results[j].key = rargs.branch_mapping_rules[j].key
            /\ \A m, n \in 1..Len(adjusts) : m < n => adjusts[m].key <= adjusts[n].key)
    /\ [](rpc = "returned" => Len(results) = Len(rargs.branch_mapping_rules))
    /\ [][RecKeyStep =>
            LET invoked == SubSeq(adjusts', Len(adjusts) + 1, Len(adjusts'))
            IN /\ SubSeq(results', 1, Len(results)) = results
               /\ Len(results') = Len(results) + 1
               /\ results'[kidx].key = rargs.branch_mapping_rules[kidx].key
               /\ results'[kidx].leap = SumOfContributions(frames[working], KeyRules(kidx), Len(KeyRules(kidx)))
               /\ results'[kidx].esto = ReferenceTotal(kidx)
               /\ results'[kidx].scale_factor =
                     IF results'[kidx].leap = Zero THEN One
                     ELSE Quot(results'[kidx].esto, results'[kidx].leap)
               /\ \A n \in 1..Len(invoked) : invoked[n].key = kidx
               /\ results'[kidx].adjusted_paths = AdjustedBy(invoked, kidx, Len(invoked))]_vars

\* a returned call over a mapping that lists the rail key before the road
\* key: the first row is that of the rail key, whose rule was adjusted, the
\* second that of the road key, for which nothing was adjusted
C20_Witness ==
    /\ rpc = "returned"
    /\ Len(rargs.branch_mapping_rules) = 2
    /\ rargs.branch_mapping_rules[1].key = Rail
    /\ Len(results) = 2
    /\ results[1].key = Rail
    /\ Len(results[1].adjusted_paths) = 1
    /\ results[2].key = Road
    /\ results[2].esto = Number(50)
    /\ results[2].adjusted_paths = <<>>
-----------------------------------------------------------------------------
(* Vocabulary of the properties of the adjustment reporting helpers *)

\* _build_change_table_for_years has returned
ChangeTableBuilt == apc = "done" /\ aargs.op = "build_change_table_for_years"

\* adjusted - original of the cell at row i and column y
CellChange(original_df, adjusted_df, i, y) ==
    Minus(adjusted_df.rows[i].vals[y], original_df.rows[i].vals[y])

\* the cells of the given columns whose |adjusted - original| exceeds tol
ChangedCells(original_df, adjusted_df, columns, tol) ==
    {c \in (1..Len(original_df.rows)) \X columns :
        /\ c[2] \in original_df.columns \cap adjusted_df.columns
        /\ gt(CellChange(original_df, adjusted_df, c[1], c[2]), tol)}

\* the row that reports a cell
ReportOf(original_df, adjusted_df, c) ==
    LET orig == original_df.rows[c[1]].vals[c[2]]
        change == CellChange(original_df, adjusted_df, c[1], c[2])
    IN [path |-> original_df.rows[c[1]].path, var |-> original_df.rows[c[1]].var,
        year |-> c[2], original |-> orig, adjusted |-> adjusted_df.rows[c[1]].vals[c[2]],
        abs_change |-> change,
        pct_change |-> IF orig = Zero THEN NaN ELSE Quot(change, orig)]

\* the table reports exactly the given cells, each once
ReportsExactly(table, original_df, adjusted_df, cells) ==
    /\ Len(table) = Cardinality(cells)
    /\ \A k \in 1..Len(table) : \E c \in cells : table[k] = ReportOf(original_df, adjusted_df, c)
    /\ \A c \in cells :
          Cardinality({k \in 1..Len(table) : table[k] = ReportOf(original_df, adjusted_df, c)})
             = Cardinality({d \in cells : ReportOf(original_df, adjusted_df, d)
                                             = ReportOf(original_df, adjusted_df, c)})

\* the rows come by non-increasing magnitude of the absolute change
ByMagnitude(table) ==
    \A j, k \in 1..Len(table) : j < k => ~gt(table[k].abs_change, table[j].abs_change)

\* the cells in which the two tables differ
DifferingCells(original_df, adjusted_df) ==
    {c \in (1..Len(original_df.rows)) \X original_df.columns :
        adjusted_df.rows[c[1]].vals[c[2]] # original_df.rows[c[1]].vals[c[2]]}

\* C21: the change table for a list of years holds exactly the (row, year)
\* cells whose |adjusted - original| exceeds the threshold, by non-increasing
\* magnitude of the absolute change, with a null percent change exactly when
\* the original value is zero; it is empty for identical tables, and has one
\* row with absolute change 10 when exactly one cell differs, by +10.
C21_ChangeTable ==
    ChangeTableBuilt =>
       LET o == aargs.original_df
           a == aargs.adjusted_df
           differing == DifferingCells(o, a)
       IN /\ ReportsExactly(changes, o, a, ChangedCells(o, a, Range(aargs.years), aargs.tol))
          /\ ByMagnitude(changes)
          /\ \A k \in 1..Len(changes) :
                IsNaN(changes[k].pct_change) <=> changes[k].original = Zero
          /\ a = o => changes = <<>>
          /\ (/\ Cardinality(differing) = 1
              /\ \A c \in differing :
                    /\ CellChange(o, a, c[1], c[2]) = Number(10)
                    /\ c[2] \in Range(aargs.years)
              /\ aargs.tol = DefaultTol)
                => Len(changes) = 1 /\ changes[1].abs_change = Number(10)

\* a table over three years with a threshold of 2: the cell changed by
\* exactly 2 is left out, the cell whose original is zero has a null percent
\* change, and two cells of equal magnitude 10 lead the table
C21_Witness ==
    /\ ChangeTableBuilt
    /\ aargs.years = <<2021, 2022, 2023>>
    /\ aargs.tol = Number(2)
    /\ aargs.adjusted_df.rows[3].vals[2021] = Number(5)
    /\ Len(changes) = 4
    /\ changes[1].abs_change = Number(10)
    /\ changes[2].abs_change = Number(-10)
    /\ changes[3].original = Zero
    /\ IsNaN(changes[3].pct_change)
    /\ changes[4].abs_change = Number(-3)

-----------------------------------------------------------------------------
\* the year columns selected by the options of the call
SelectedColumns ==
    IF ~rargs.apply_adjustments_to_future_years THEN {rargs.base_year}
    ELSE {col \in YearColumnsOfInput :
             rargs.apply_adjustments_to_past_years \/ col >= rargs.base_year}

\* the keys for which an adjustment was made
AdjustedKeys == {adjusts[n].key : n \in {m \in 1..Len(adjusts) : adjusts[m].raised = ""}}

\* the cells in which the working copy differs from the caller's table
ChangedByReconcile ==
    {c \in (1..Len(rargs.export_df.rows)) \X rargs.export_df.columns :
        frames[working].rows[c[1]].vals[c[2]] # rargs.export_df.rows[c[1]].vals[c[2]]}

\* C24: with the default adjustment the working copy has the rows and columns
\* of the input, and every cell that is not at a selected year column of a row
\* whose (path, variable) is an input variable of a rule of an adjusted key
\* equals the input value; with default options only the base-period column
\* differs from the input.
C24_Frame ==
    (rargs.adjustment_fn = "None" /\ rpc \in {"keys", "returned"}) =>
       /\ frames[working].columns = rargs.export_df.columns
       /\ Len(frames[working].rows) = Len(rargs.export_df.rows)
       /\ \A i \in 1..Len(rargs.export_df.rows) :
             /\ frames[working].rows[i].path = rargs.export_df.rows[i].path
             /\ frames[working].rows[i].var = rargs.export_df.rows[i].var
             /\ frames[working].rows[i].label = rargs.export_df.rows[i].label
       /\ \A c \in ChangedByReconcile :
             /\ c[2] \in SelectedColumns
             /\ \E k \in AdjustedKeys : Matches(rargs.export_df, k, c[1]) # {}
       /\ DefaultOptions => \A c \in ChangedByReconcile : c[2] = rargs.base_year

\* a returned call with default options that scaled the base period of the
\* rows of one branch and left the other years and the other branch alone
C24_Witness ==
    /\ rpc = "returned"
    /\ DefaultOptions
    /\ rargs.base_year = 2022
    /\ rargs.export_df = SharedIndex
    /\ ChangedByReconcile = {<<1, 2022>>, <<2, 2022>>}
    /\ frames[working].rows[1].vals[2022] = Number(15)
    /\ frames[working].rows[1].vals[2023] = Number(12)

-----------------------------------------------------------------------------
\* build_adjustment_change_tables has returned
ChangeTablesBuilt == apc = "done" /\ aargs.op = "build_adjustment_change_tables"

\* the year columns of the adjusted table strictly after the base year
LaterYearColumns ==
    {col \in aargs.adjusted_df.columns : col \in 1000..9999 /\ col > aargs.base_year}

\* C25: base_changes reports the differences of the base_year column only;
\* future_changes is None when include_future_years is False and otherwise
\* reports the differences of exactly the year columns strictly after
\* base_year, never those of the base year.
C25_BaseAndFutureTables ==
    ChangeTablesBuilt =>
       LET o == aargs.original_df
           a == aargs.adjusted_df
       IN /\ ReportsExactly(changes.base_changes, o, a, ChangedCells(o, a, {aargs.base_year}, aargs.tol))
          /\ \A k \in 1..Len(changes.base_changes) : changes.base_changes[k].year = aargs.base_year
          /\ ~aargs.include_future_years => changes.future_changes = None
          /\ aargs.include_future_years =>
                /\ changes.future_changes # None
                /\ ReportsExactly(changes.future_changes.table, o, a, ChangedCells(o, a, LaterYearColumns, aargs.tol))
                /\ \A k \in 1..Len(changes.future_changes.table) :
                      /\ changes.future_changes.table[k].year # aargs.base_year
                      /\ changes.future_changes.table[k].year \in LaterYearColumns

\* base year 2022 with future years: the base table has the three changes of
\* 2022, the future table the change of 2023 and neither the change of 2021
\* nor that of the column 20240, which is no year
C25_Witness ==
    /\ ChangeTablesBuilt
    /\ rpc = "off"
    /\ aargs.base_year = 2022
    /\ aargs.include_future_years
    /\ aargs.tol = DefaultTol
    /\ aargs.adjusted_df = Edited(AuditOriginal, CellEdits)
    /\ Len(changes.base_changes) = 3
    /\ Len(changes.future_changes.table) = 1
    /\ changes.future_changes.table[1].year = 2023
    /\ changes.future_changes.table[1].abs_change = Number(-10)

-----------------------------------------------------------------------------
\* the rules of the key of the step whose contribution was degraded to zero
\* for a missing input series, and the other rules of the key
DegradedRules == {n \in 1..Len(KeyRules(kidx)) : MissingSeries(frames[working], KeyRules(kidx)[n])}
SoundRules == (1..Len(KeyRules(kidx))) \ DegradedRules

\* row i belongs to the branch of rule n of the key of the step
RowOfRule(i, n) == frames[working].rows[i].path = RulePath(KeyRules(kidx)[n])

\* C28: with the default calculation and adjustment, a rule whose
\* contribution was degraded to zero for a missing input series is left
\* untouched by the adjustment step: none of its remaining input rows is
\* scaled and its path is not among the key's adjusted paths; a path is
\* listed as adjusted only if at least one of its rows was changed.
C28_Original ==
    [][(RecKeyStep /\ rargs.adjustment_fn = "None" /\ rargs.energy_fn = "None") =>
          /\ \A n \in DegradedRules :
                (\A m \in SoundRules : RulePath(KeyRules(kidx)[m]) # RulePath(KeyRules(kidx)[n])) =>
                   /\ RulePath(KeyRules(kidx)[n]) \notin Range(results'[kidx].adjusted_paths)
                   /\ \A i \in 1..Len(frames[working].rows) :
                         RowOfRule(i, n) => frames'[working].rows[i] = frames[working].rows[i]
          /\ \A j \in 1..Len(results'[kidx].adjusted_paths) :
                \E i \in 1..Len(frames[working].rows) :
                   /\ frames[working].rows[i].path = results'[kidx].adjusted_paths[j]
                   /\ frames'[working].rows[i] # frames[working].rows[i]]_vars

\* branch Y has no Final Energy Intensity row: its rule counted zero in the
\* road total of 50, yet its Activity Level row was scaled by 75/50 and its
\* path is listed as adjusted
C28_Witness ==
    /\ rpc = "returned"
    /\ DefaultOptions
    /\ rargs.export_df = MissingInput
    /\ rargs.base_year = 2022
    /\ MissingSeries(rargs.export_df, KeyRules(1)[1])
    /\ RulePath(KeyRules(1)[1]) = Branch(<<"Y">>)
    /\ results[1].leap = Number(50)
    /\ results[1].scale_factor = Rat(3, 2)
    /\ results[1].adjusted_paths = <<Branch(<<"Y">>), Branch(<<"X">>)>>
    /\ rargs.export_df.rows[3].vals[2022] = Number(4)
    /\ frames[working].rows[3].vals[2022] = Number(6)

-----------------------------------------------------------------------------
\* the scale factors of the keys processed up to and including the step
ScaleFactorsSoFar == {results'[j].scale_factor : j \in 1..kidx}

\* C29: the result of reconcile_energy_use does not depend on the iteration
\* order of the keys: with the default calculation and adjustment, each key's
\* modeled total is computed from the original input values, and each cell
\* of a matched row is scaled at most once, by the scale factor of one key,
\* even when its row is referenced by rules of more than one key or by two
\* rules of the same key.
C29_Original ==
    [][(RecKeyStep /\ rargs.adjustment_fn = "None" /\ rargs.energy_fn = "None") =>
          /\ results'[kidx].leap = ModeledTotal(rargs.export_df, kidx)
          /\ \A i \in 1..Len(rargs.export_df.rows) : \A col \in rargs.export_df.columns :
                \/ frames'[working].rows[i].vals[col] = rargs.export_df.rows[i].vals[col]
                \/ \E s \in ScaleFactorsSoFar :
                      frames'[working].rows[i].vals[col] =
                         Times(rargs.export_df.rows[i].vals[col], s)]_vars

\* the Activity Level row of X (10) is the input of the rail rule and of both
\* road rules: rail scaled it by 20/10, the road total was then read as 40
\* instead of 20, and the two road rules scaled it by 75/40 each
C29_Witness ==
    /\ rpc = "returned"
    /\ DefaultOptions
    /\ rargs.export_df = SharedIndex
    /\ rargs.base_year = 2022
    /\ Len(results) = 2
    /\ KeyRules(1)[1] = KeyRules(2)[1]
    /\ KeyRules(2)[1] = KeyRules(2)[2]
    /\ results[1].leap = Number(10)
    /\ results[1].scale_factor = Number(2)
    /\ ModeledTotal(rargs.export_df, 2) = Number(20)
    /\ results[2].leap = Number(40)
    /\ results[2].scale_factor = Rat(15, 8)
    /\ rargs.export_df.rows[1].vals[2022] = Number(10)
    /\ frames[working].rows[1].vals[2022] = Rat(1125, 16)

-----------------------------------------------------------------------------
\* the tables of the audit of a returned reconciliation, future years included
ReconciliationAudited ==
    /\ rpc = "returned"
    /\ apc = "done"
    /\ aargs.op = "build_adjustment_change_tables"
    /\ aargs.include_future_years

\* the cell is a row of the base-year table or of the future-years table
Reported(c) ==
    LET report == ReportOf(aargs.original_df, aargs.adjusted_df, c)
    IN \/ \E k \in 1..Len(changes.base_changes) : changes.base_changes[k] = report
       \/ /\ changes.future_changes # None
          /\ \E k \in 1..Len(changes.future_changes.table) :
                changes.future_changes.table[k] = report

\* C30: every cell that reconcile_energy_use changed by more than the
\* auditor's threshold is reported by build_adjustment_change_tables(original,
\* adjusted, base_year, include_future_years=True) in its base-year or its
\* future-years table, the cells at year columns before the base year
\* included.
C30_Original ==
    ReconciliationAudited =>
       \A c \in ChangedCells(rargs.export_df, frames[working], rargs.export_df.columns, aargs.tol) :
          Reported(c)

\* reconcile ran with both options on and scaled the 2021, 2022 and 2023
\* cells of X by 3/2; the audit reports those of 2022 and 2023 and not the
\* change of Activity Level in 2021 from 8 to 12
C30_Witness ==
    /\ ReconciliationAudited
    /\ rargs.apply_adjustments_to_future_years
    /\ rargs.apply_adjustments_to_past_years
    /\ rargs.adjustment_fn = "None"
    /\ rargs.export_df = SharedIndex
    /\ rargs.base_year = 2022
    /\ aargs.original_df = rargs.export_df
    /\ aargs.adjusted_df = frames[working]
    /\ rargs.export_df.rows[1].vals[2021] = Number(8)
    /\ frames[working].rows[1].vals[2021] = Number(12)
    /\ Reported(<<1, 2022>>)
    /\ Reported(<<1, 2023>>)
    /\ ~Reported(<<1, 2021>>)
    /\ \A k \in 1..Len(changes.base_changes) : changes.base_changes[k].year = 2022
    /\ \A k \in 1..Len(changes.future_changes.table) : changes.future_changes.table[k].year = 2023

====
